---- MODULE Spec2Model ----
(***************************************************************************)
(* Model of the rate-limited request scheduler of the QA agent server      *)
(* (server/src/rateLimiter.ts): the sliding-window token tracker, the      *)
(* priority queue of executeWithRateLimit and its retry loop.  Time is in  *)
(* milliseconds, as read from Date.now().                                  *)
(***************************************************************************)
EXTENDS Integers, Sequences, FiniteSets, TLC

\* ------------------------------------------------------------------ bounds
\* Number of executeWithRateLimit calls submitted under Spec.
MaxCalls == 2
\* Number of executeWithRateLimit calls submitted under SpecQueue.
MaxQueueCalls == 4
\* Number of executeWithRateLimit calls submitted under SpecBudget.
MaxBudgetCalls == 3
\* Last instant of Date.now() that is explored under Spec, SpecQueue, SpecBudget.
MaxTime == 150000
MaxQueueTime == 60000
MaxBudgetTime == 90000
\* Configuration handed to the constructor (0 stands for "not given").
CfgTokensPerMinute == 1000
CfgMaxRetries == 2
\* MAX_ITERATIONS (read from the environment) under SpecLoop, SpecHistory and
\* SpecGateway.
MaxIterations == 3
MaxHistoryIterations == 10
MaxGatewayIterations == 2
\* Largest number of tool calls in one assistant message under SpecLoop.
MaxTurn == 2
\* MAX_ITERATIONS under SpecGuard.
MaxGuardIterations == 2
\* Calls and last instant explored under SpecConfig.
MaxConfigCalls == 2
MaxConfigTime == 60000
\* MAX_ITERATIONS under SpecLive.
MaxLiveIterations == 2
\* MAX_ITERATIONS under SpecStart.
MaxStartIterations == 1
\* MAX_ITERATIONS and the last instant explored under SpecCancel.
MaxCancelIterations == 2
MaxCancelTime == 90000
\* maxRetries and the last instant explored under SpecBackoff.
CfgBackoffRetries == 3
MaxBackoffTime == 120000
\* Number of callers and latest arrival of a caller under SpecQueueLive.
MaxLiveCalls == 3
MaxLiveArrival == 30000
\* Concurrent runAgent calls, transports they may create between them and
\* limiter log messages per run under SpecPair.
MaxRuns == 2
MaxTransports == 3
MaxSaid == 1

\* ------------------------------------------------------- program constants
DefaultTokensPerMinute == 25000
DefaultMaxRetries == 5
DefaultInitialRetryDelay == 1000
DefaultMaxRetryDelay == 60000
DefaultBackoffMultiplier == 2
WindowMs == 60000
maxWaitTime == 120000
SafetyMarginMs == 500
MaxIterationWaitMs == 10000
DefaultEstimate == 2000
\* agent.ts
MAX_TOOL_RESULT_LENGTH == 4000
MAX_MESSAGES_HISTORY == 30
MAX_CONSECUTIVE_ERRORS == 3
TruncationMarkerLength == 37
SnapshotItemChars == 500
SnapshotPageChars == 2000
MaskedPrefixChars == 30
ModalThreshold == 3
MAX_RETRIES == 3
BlockedMessageLength == 114

Min(a, b) == IF a < b THEN a ELSE b
Max(a, b) == IF a > b THEN a ELSE b

\* ------------------------------------------------------------ input domains
\* The call ids of the largest specification.
AllCalls == 1..Max(Max(MaxCalls, MaxQueueCalls), MaxBudgetCalls)
\* estimatedTokens arguments: omitted/zero, negative, and in-range estimates.
EstSet == {0, -100, 300, 400}
\* priority arguments under SpecQueue.
PrioritySet == {1, 3, 5}
\* Time steps of the environment between two events.
TickSet == {30000}
\* usage.total_tokens of a successful response; NoUsage: the response has none.
NoUsage == -1
UsageSet == {NoUsage, 100, 400}

\* Errors a provider call rejects with.  retryAfterHeader is the value of the
\* retry-after header in seconds, tryAgainMs the number in a message
\* "try again in <n>ms" and tryAgainSec the number in a message
\* "try again in <n>s"; NoValue when absent.
NoValue == -1
NoError == [status |-> 0, msg429 |-> FALSE, msgRateLimit |-> FALSE,
            retryAfterHeader |-> NoValue, tryAgainMs |-> NoValue,
            tryAgainSec |-> NoValue]
Err429 == [NoError EXCEPT !.status = 429]
ErrRateLimitMsg == [NoError EXCEPT !.status = 500, !.msgRateLimit = TRUE,
                                   !.tryAgainMs = 2000]
ErrRetryAfter == [NoError EXCEPT !.status = 429, !.retryAfterHeader = 2]
ErrFatal == [NoError EXCEPT !.status = 500]
ErrTryAgainMs == [NoError EXCEPT !.status = 429, !.tryAgainMs = 2000]
ErrRetryAfterZero == [NoError EXCEPT !.status = 429, !.retryAfterHeader = 0]
ErrTryAgainSec == [NoError EXCEPT !.status = 429, !.tryAgainSec = 20]
ErrorSet == {Err429, ErrRateLimitMsg, ErrFatal}

VARIABLES
  now,                \* Date.now()
  config,             \* RateLimiter.config
  tokenUsageHistory,  \* RateLimiter.tokenUsageHistory
  currentTokens,      \* RateLimiter.currentTokens
  requestQueue,       \* RateLimiter.requestQueue (call ids, with calls[c].priority)
  isProcessingQueue,  \* RateLimiter.isProcessingQueue
  calls,              \* one record per executeWithRateLimit call: its closure state
  recorded,           \* log of every recordTokenUsage call (never evicted)
  run,                \* one runAgent call: its local variables and position
  mcpClient,          \* agent.ts mcpClient: TRUE when a client is connected
  abandoned,          \* external tool invocations whose wait timed out and
                      \* that are still running
  closeIssued,        \* number of browser_close calls sent by cleanup
  emitted,            \* the log events handed to onLog by the latest step
  peers,              \* concurrent runAgent calls: position and locals of each
  shared              \* the module-level state they share: the limiter's
                      \* logger, mcpClient, mcpTransport, mcpInitializing

limiterVars == <<now, config, tokenUsageHistory, currentTokens, requestQueue,
                 isProcessingQueue, calls, recorded>>

agentVars == <<run, mcpClient, abandoned, closeIssued, emitted>>

pairVars == <<peers, shared>>

vars == <<now, config, tokenUsageHistory, currentTokens, requestQueue,
          isProcessingQueue, calls, recorded,
          run, mcpClient, abandoned, closeIssued, emitted, peers, shared>>

\* ---------------------------------------------------------- agent.ts: data
\* Strings the code searches are sequences: of characters for the arguments
\* of a typing call, of words for the text of a tool result.
StartsWith(s, p) == Len(s) >= Len(p) /\ SubSeq(s, 1, Len(p)) = p

Includes(s, p) ==
  \E i \in 1..(Len(s) - Len(p) + 1) : SubSeq(s, i, i + Len(p) - 1) = p

\* String.prototype.substring(0, n)
Substring(s, n) == SubSeq(s, 1, Min(n, Len(s)))

PasswordWord == <<"p", "a", "s", "s", "w", "o", "r", "d">>

\* A tool call of an assistant message: function.name and the parsed
\* function.arguments (an absent string argument is the empty sequence).
NoArgs == [text |-> <<>>, name |-> <<>>, value |-> <<>>, element |-> "none"]
NoCall == [name |-> "none", args |-> NoArgs, id |-> 0]

\* The value a tool resolves with.  len is the length of the string
\* truncateToolResult starts from (line 27); content is the MCP content
\* array (items with a type, a text and the text's length).
NoToolResult == [hasContent |-> FALSE, content |-> <<>>, hasIsError |-> FALSE,
                 isError |-> FALSE, success |-> TRUE, len |-> 0,
                 urlLen |-> 0, titleLen |-> 0]

\* What runAgent returns; returned is FALSE until it has.
NoResult == [returned |-> FALSE, success |-> FALSE, errorCode |-> "none",
             error |-> "none"]

\* A thrown error: AgentError when agentError, else another Error.
NoThrown == [agentError |-> FALSE, code |-> "none", recoverable |-> FALSE,
             message |-> <<>>, len |-> 0]

\* No provider error (in run.rejected).
NotRejected == [status |-> -1, invalidKey |-> FALSE, rateLimit |-> FALSE,
                model |-> FALSE, overloaded |-> FALSE]

\* messages[i]: its role, the length of its content where the code bounds it
\* (tool-role messages), seq, the number of the push that appended it, and
\* ref, the tool_call_id of a tool-role message (0 for the other roles).
Message(role, len, seq) == [role |-> role, len |-> len, seq |-> seq, ref |-> 0]

\* The runAgent calls in flight at the same time.
Peers == 1..MaxRuns

\* A runAgent call that has not begun: retryCount is the argument of its
\* initializeMCPClient call, mine the transport its connect() runs on, probe
\* the client its health check asked, after where its cleanupMCPClient call
\* returns to, on the client its tool call went to, said the limiter messages
\* logged while its LLM call was served, heard[q] the limiter messages about
\* run q that its onLog received.
InitialPeer ==
  [pc |-> "idle", retryCount |-> 0, mine |-> 0, probe |-> 0, after |-> "none",
   on |-> 0, said |-> 0, heard |-> [q \in Peers |-> 0]]

InitialPeers == [p \in Peers |-> InitialPeer]

\* The process before any run: no logger, no client, no transport ever made.
\* Transports and the clients connected through them carry the same number;
\* open holds the transports whose server process runs, connected the clients
\* whose connect() has resolved, browser the transport whose server has a
\* browser session (0: none).
InitialShared ==
  [logger |-> 0, mcpClient |-> 0, mcpTransport |-> 0, mcpInitializing |-> FALSE,
   made |-> 0, open |-> {}, connected |-> {}, browser |-> 0]

\* runAgent at line 587: inputs validated, the limiter's logger set, MCP
\* client connected, the system and the initial user message in place; the
\* caller of runAgent (the request handler of index.ts) is connected.
InitialRun ==
  [pc |-> "loop",
   logger |-> TRUE, connected |-> TRUE, final |-> "none", retryCount |-> 0,
   rejection |-> NoThrown,
   messages |-> <<Message("system", 0, 1), Message("user", 0, 2)>>,
   iterations |-> 0, consecutiveNavigateBack |-> 0,
   consecutiveFailedClicks |-> 0, consecutiveErrors |-> 0,
   pending |-> <<>>, current |-> NoCall, retried |-> FALSE,
   exit |-> NoResult, result |-> NoResult,
   \* observations of the run, read by no action
   pushes |-> 2, requestSize |-> 0, llmCalls |-> 0, started |-> "none",
   trailingBacks |-> 0, handled |-> NoCall, how |-> "none",
   caught |-> NoThrown, turn |-> <<>>, rejected |-> NotRejected,
   resolved |-> NoToolResult, failedCalls |-> 0, attempts |-> 0,
   sent |-> <<>>, connects |-> 0]

\* ----------------------------------------------------------------- helpers

RECURSIVE SumTokens(_)
\* tokenUsageHistory.reduce((sum, usage) => sum + usage.tokens, 0)
SumTokens(h) == IF h = <<>> THEN 0 ELSE Head(h).tokens + SumTokens(Tail(h))

\* config.x || default, for each field of the constructor's argument
OrDefault(v, d) == IF v = 0 THEN d ELSE v

NewConfig(partial) ==
  [tokensPerMinute |-> OrDefault(partial.tokensPerMinute, DefaultTokensPerMinute),
   maxRetries |-> OrDefault(partial.maxRetries, DefaultMaxRetries),
   initialRetryDelay |-> OrDefault(partial.initialRetryDelay, DefaultInitialRetryDelay),
   maxRetryDelay |-> OrDefault(partial.maxRetryDelay, DefaultMaxRetryDelay),
   backoffMultiplier |-> OrDefault(partial.backoffMultiplier, DefaultBackoffMultiplier)]

\* A filter that also keeps the record that is exactly 60 s old.
FreshMutant(usage, t) == usage.timestamp >= t - WindowMs

\* The tokenUsageHistory.filter of cleanupTokenHistory at time t.
Fresh(usage, t) == usage.timestamp > t - WindowMs

CleanHistory(h, t) == SelectSeq(h, LAMBDA usage : Fresh(usage, t))

\* recordTokenUsage(tokens) at time t: push, add, cleanupTokenHistory.  Each
\* entry is tagged with the call it was recorded for.
PushUsage(h, n, t, c) ==
  CleanHistory(Append(h, [tokens |-> n, timestamp |-> t, call |-> c]), t)

RECURSIVE WindowSum(_, _)
\* Sum of the amounts recorded less than 60 s before t, over the log of every
\* recordTokenUsage call.
WindowSum(log, t) ==
  IF log = <<>> THEN 0
  ELSE (IF t - Head(log).timestamp < WindowMs THEN Head(log).tokens ELSE 0)
       + WindowSum(Tail(log), t)

IdleCall == [pc |-> "idle", est |-> 0, tokens |-> 0, priority |-> 0, arrival |-> 0,
             startTime |-> 0, wakeAt |-> 0, attempt |-> 0, retryDelay |-> 0,
             lastError |-> NoError, invocations |-> 0, capSleeps |-> 0,
             retrySleeps |-> 0, admit |-> "none", availAtEntry |-> 0,
             availAtAdmit |-> 0,
             outcome |-> "none", usage |-> NoUsage, error |-> NoError,
             logged |-> {}, charge |-> 0, busyWith |-> 0]

Init ==
  /\ now = 0
  /\ config = NewConfig([tokensPerMinute |-> CfgTokensPerMinute,
                         maxRetries |-> CfgMaxRetries,
                         initialRetryDelay |-> 0, maxRetryDelay |-> 0,
                         backoffMultiplier |-> 0])
  /\ tokenUsageHistory = <<>>
  /\ currentTokens = 0
  /\ requestQueue = <<>>
  /\ isProcessingQueue = FALSE
  /\ calls = [c \in AllCalls |-> IdleCall]
  /\ recorded = <<>>
  /\ run = InitialRun
  /\ mcpClient = TRUE
  /\ abandoned = 0
  /\ closeIssued = 0
  /\ peers = InitialPeers
  /\ shared = InitialShared
  /\ emitted = <<>>

\* ----------------------------------------------------- waitForTokenCapacity
\* Math.min(Math.max(0, 60000 - age + 500), 10000) for the oldest record of h.
WaitTimeFor(h, t) ==
  Min(Max(0, WindowMs - (t - h[1].timestamp) + SafetyMarginMs), MaxIterationWaitMs)

\* A capacity test that asks for strictly more room than is required.
CapacityOutcomeMutant(clean, required, limit, started, t) ==
  IF limit - SumTokens(clean) > required THEN "capacity"
  ELSE IF t - started > maxWaitTime THEN "maxwait"
  ELSE IF Len(clean) > 0
       THEN (IF WaitTimeFor(clean, t) > 0 THEN "sleep" ELSE "spin")
       ELSE "reset"

\* The branch one pass of the while loop takes at time t, on the cleaned history.
CapacityOutcome(clean, required, limit, started, t) ==
  IF limit - SumTokens(clean) >= required THEN "capacity"
  ELSE IF t - started > maxWaitTime THEN "maxwait"
  ELSE IF Len(clean) > 0
       THEN (IF WaitTimeFor(clean, t) > 0 THEN "sleep" ELSE "spin")
       ELSE "reset"

\* One pass of the loop of waitForTokenCapacity for call c at time t, on the
\* call records cs: it returns (pc "admitted") or sleeps (pc "waitcap").
WaitForTokenCapacityPass(c, cs, t) ==
  LET clean == CleanHistory(tokenUsageHistory, t)
      cur == SumTokens(clean)
      avail == config.tokensPerMinute - cur
      kind == CapacityOutcome(clean, cs[c].tokens, config.tokensPerMinute,
                              cs[c].startTime, t)
  IN /\ tokenUsageHistory' = clean
     /\ currentTokens' = IF kind = "reset" THEN 0 ELSE cur
     /\ calls' = [cs EXCEPT ![c] =
          CASE kind = "capacity" -> [@ EXCEPT !.pc = "admitted", !.admit = kind,
                                              !.wakeAt = 0, !.startTime = 0,
                                              !.availAtAdmit = avail]
            [] kind = "maxwait" -> [@ EXCEPT !.pc = "admitted", !.admit = kind,
                                             !.wakeAt = 0, !.startTime = 0,
                                             !.availAtAdmit = avail,
                                             !.logged = @ \cup {"maxwait"}]
            [] kind = "reset" -> [@ EXCEPT !.pc = "admitted", !.admit = kind,
                                           !.wakeAt = 0, !.startTime = 0,
                                           !.availAtAdmit = avail]
            [] kind = "sleep" -> [@ EXCEPT !.pc = "waitcap",
                                           !.wakeAt = t + WaitTimeFor(clean, t),
                                           !.capSleeps = @ + 1,
                                           !.logged = @ \cup {"needmore"}]
            [] OTHER -> [@ EXCEPT !.pc = "waitcap", !.wakeAt = t]]

\* ----------------------------------------------------------- processRequest
\* let tokens = estimatedTokens; if (!tokens) tokens = 2000
TokensFor(est) == IF est = 0 THEN DefaultEstimate ELSE est

\* A processRequest that starts the body without raising isProcessingQueue.
BeginProcessMutant(c, cs) ==
  /\ UNCHANGED isProcessingQueue
  /\ WaitForTokenCapacityPass(c,
       [cs EXCEPT ![c].tokens = TokensFor(cs[c].est),
                  ![c].startTime = now,
                  ![c].availAtEntry = config.tokensPerMinute
                       - SumTokens(CleanHistory(tokenUsageHistory, now))],
       now)

\* processRequest up to the first suspension of execute(): the flag is set and
\* the body runs into waitForTokenCapacity.
BeginProcess(c, cs) ==
  /\ isProcessingQueue' = TRUE
  /\ WaitForTokenCapacityPass(c,
       [cs EXCEPT ![c].tokens = TokensFor(cs[c].est),
                  ![c].startTime = now,
                  ![c].availAtEntry = config.tokensPerMinute
                       - SumTokens(CleanHistory(tokenUsageHistory, now))],
       now)

RECURSIVE InsertByPriorityMutant(_, _, _)
\* An insertion that puts x in front of the elements of equal priority.
InsertByPriorityMutant(s, x, cs) ==
  IF s = <<>> THEN <<x>>
  ELSE IF cs[Head(s)].priority > cs[x].priority
       THEN <<Head(s)>> \o InsertByPriorityMutant(Tail(s), x, cs)
       ELSE <<x>> \o s

RECURSIVE InsertByPriority(_, _, _)
\* x placed behind every element whose priority is not lower than its own.
InsertByPriority(s, x, cs) ==
  IF s = <<>> THEN <<x>>
  ELSE IF cs[Head(s)].priority >= cs[x].priority
       THEN <<Head(s)>> \o InsertByPriority(Tail(s), x, cs)
       ELSE <<x>> \o s

RECURSIVE SortQueue(_, _)
\* requestQueue.sort((a, b) => b.priority - a.priority): a stable sort.
SortQueue(q, cs) ==
  IF q = <<>> THEN <<>>
  ELSE InsertByPriority(SortQueue(SubSeq(q, 1, Len(q) - 1), cs), q[Len(q)], cs)

\* Whether the execute body of call c is in progress: capacity wait,
\* reservation, provider attempts and retry sleeps.
InBody(c) == calls[c].pc \in {"waitcap", "admitted", "inflight", "backoff"}

\* The call whose body is in progress, 0 when there is none.
Executing == IF \E d \in AllCalls : InBody(d)
             THEN CHOOSE d \in AllCalls : InBody(d) ELSE 0

\* executeWithRateLimit(requestFn, est, prio): queue the call when the limiter
\* is busy, start it otherwise.  Calls are numbered in order of submission.
Submit(c, est, prio) ==
  /\ calls[c].pc = "idle"
  /\ \A d \in AllCalls : d < c => calls[d].pc # "idle"
  /\ LET cs == [calls EXCEPT ![c].est = est, ![c].priority = prio, ![c].arrival = c,
                             ![c].busyWith = Executing]
     IN IF isProcessingQueue
        THEN /\ requestQueue' = SortQueue(Append(requestQueue, c), cs)
             /\ calls' = [cs EXCEPT ![c].pc = "queued"]
             /\ UNCHANGED <<now, config, tokenUsageHistory, currentTokens,
                            isProcessingQueue, recorded>>
        ELSE /\ BeginProcess(c, cs)
             /\ UNCHANGED <<now, config, requestQueue, recorded>>

\* The setImmediate callback of processRequest: the dequeued call starts.
StartNext(c) ==
  /\ calls[c].pc = "scheduled"
  /\ BeginProcess(c, calls)
  /\ UNCHANGED <<now, config, requestQueue, recorded>>

\* The sleep of waitForTokenCapacity is over (its deadline has passed) and the
\* loop runs its next pass.
WakeCapacity(c) ==
  /\ calls[c].pc = "waitcap"
  /\ now >= calls[c].wakeAt
  /\ WaitForTokenCapacityPass(c, calls, now)
  /\ UNCHANGED <<now, config, requestQueue, isProcessingQueue, recorded>>

\* After waitForTokenCapacity: the estimate is reserved and the retry loop makes
\* its first attempt.
Reserve(c) ==
  /\ calls[c].pc = "admitted"
  /\ tokenUsageHistory' = PushUsage(tokenUsageHistory, calls[c].tokens, now, c)
  /\ currentTokens' = SumTokens(tokenUsageHistory')
  /\ recorded' = Append(recorded, [call |-> c, tokens |-> calls[c].tokens,
                                   timestamp |-> now, kind |-> "reserve",
                                   admit |-> calls[c].admit])
  /\ calls' = [calls EXCEPT ![c].pc = "inflight", ![c].attempt = 0,
                            ![c].retryDelay = config.initialRetryDelay,
                            ![c].invocations = 1, ![c].capSleeps = 0,
                            ![c].availAtEntry = 0, ![c].availAtAdmit = 0]
  /\ UNCHANGED <<now, config, requestQueue, isProcessingQueue>>

\* What the tracker counts for call c: the sum of its entries in the history.
ChargeOf(h, c) == SumTokens(SelectSeq(h, LAMBDA usage : usage.call = c))

\* requestFn resolves; u is usage.total_tokens (NoUsage: none reported).
RespondOk(c, u) ==
  /\ calls[c].pc = "inflight"
  /\ LET actualTokensUsed == IF u # NoUsage THEN u ELSE calls[c].tokens
     IN IF actualTokensUsed # calls[c].tokens
        THEN /\ tokenUsageHistory' =
                  PushUsage(tokenUsageHistory, actualTokensUsed - calls[c].tokens, now, c)
             /\ currentTokens' = SumTokens(tokenUsageHistory')
             /\ recorded' = Append(recorded,
                  [call |-> c, tokens |-> actualTokensUsed - calls[c].tokens,
                   timestamp |-> now, kind |-> "delta", admit |-> "none"])
        ELSE UNCHANGED <<tokenUsageHistory, currentTokens, recorded>>
  /\ calls' = [calls EXCEPT ![c].pc = "settled", ![c].outcome = "resolved",
                            ![c].usage = u,
                            ![c].charge = ChargeOf(tokenUsageHistory', c)]
  /\ UNCHANGED <<now, config, requestQueue, isProcessingQueue>>

\* A test that takes every status from 429 up for a throttling error.
IsRateLimitMutant(e) == e.status >= 429 \/ e.msg429 \/ e.msgRateLimit

\* error.status === 429 || message.includes('429') || lowercased message
\* includes 'rate limit'
IsRateLimit(e) == e.status = 429 \/ e.msg429 \/ e.msgRateLimit

\* extractRetryAfter(error), in ms; NoValue for null.  The header is read as
\* a number of seconds; in the message only /try again in (\d+)ms/i is
\* looked for.
ExtractRetryAfter(e) ==
  IF e.retryAfterHeader # NoValue THEN e.retryAfterHeader * 1000
  ELSE IF e.tryAgainMs # NoValue THEN e.tryAgainMs
  ELSE NoValue

\* const waitTime = retryAfter || retryDelay
RetryWaitTime(e, retryDelay) ==
  IF ExtractRetryAfter(e) = NoValue \/ ExtractRetryAfter(e) = 0
  THEN retryDelay ELSE ExtractRetryAfter(e)

\* A catch block that also sleeps after the last attempt.
WillRetryMutant(e, attempt, maxRetries) == IsRateLimit(e) /\ attempt <= maxRetries

\* Whether the catch block sleeps and goes round the loop again.
WillRetry(e, attempt, maxRetries) == IsRateLimit(e) /\ attempt < maxRetries

\* A catch block that gives the reservation back when the call fails for good.
RespondErrReleaseMutant(c, e) ==
  /\ calls[c].pc = "inflight"
  /\ calls' = [calls EXCEPT ![c] =
       IF WillRetry(e, calls[c].attempt, config.maxRetries)
       THEN [@ EXCEPT !.pc = "backoff", !.lastError = e,
                      !.wakeAt = now + RetryWaitTime(e, calls[c].retryDelay),
                      !.retrySleeps = @ + 1,
                      !.logged = @ \cup {"ratelimit"}]
       ELSE [@ EXCEPT !.pc = "settled", !.lastError = e,
                      !.outcome = "rejected", !.error = e,
                      !.logged = IF IsRateLimit(e) THEN @ \cup {"ratelimit"} ELSE @]]
  /\ IF WillRetry(e, calls[c].attempt, config.maxRetries)
     THEN UNCHANGED <<tokenUsageHistory, currentTokens, recorded>>
     ELSE /\ tokenUsageHistory' =
               PushUsage(tokenUsageHistory, 0 - calls[c].tokens, now, c)
          /\ currentTokens' = SumTokens(tokenUsageHistory')
          /\ recorded' = Append(recorded,
               [call |-> c, tokens |-> 0 - calls[c].tokens,
                timestamp |-> now, kind |-> "delta", admit |-> "none"])
  /\ UNCHANGED <<now, config, requestQueue, isProcessingQueue>>

\* requestFn rejects with e: the catch block of the retry loop.
RespondErr(c, e) ==
  /\ calls[c].pc = "inflight"
  /\ calls' = [calls EXCEPT ![c] =
       IF WillRetry(e, calls[c].attempt, config.maxRetries)
       THEN [@ EXCEPT !.pc = "backoff", !.lastError = e,
                      !.wakeAt = now + RetryWaitTime(e, calls[c].retryDelay),
                      !.retrySleeps = @ + 1,
                      !.logged = @ \cup {"ratelimit"}]
       ELSE [@ EXCEPT !.pc = "settled", !.lastError = e,
                      !.outcome = "rejected", !.error = e,
                      !.logged = IF IsRateLimit(e) THEN @ \cup {"ratelimit"} ELSE @]]
  /\ UNCHANGED <<now, config, tokenUsageHistory, currentTokens, requestQueue,
                 isProcessingQueue, recorded>>

\* retryDelay = Math.min(retryDelay * backoffMultiplier, maxRetryDelay)
NextRetryDelay(retryDelay) ==
  Min(retryDelay * config.backoffMultiplier, config.maxRetryDelay)

\* The back-off sleep ends: the delay grows, attempt++ and, while
\* attempt <= maxRetries, requestFn is invoked again; past it, throw lastError.
WakeRetry(c) ==
  /\ calls[c].pc = "backoff"
  /\ now >= calls[c].wakeAt
  /\ calls' = [calls EXCEPT ![c] =
       IF calls[c].attempt + 1 <= config.maxRetries
       THEN [@ EXCEPT !.pc = "inflight", !.wakeAt = 0,
                      !.retryDelay = NextRetryDelay(calls[c].retryDelay),
                      !.attempt = calls[c].attempt + 1,
                      !.invocations = calls[c].invocations + 1]
       ELSE [@ EXCEPT !.pc = "settled", !.wakeAt = 0,
                      !.retryDelay = NextRetryDelay(calls[c].retryDelay),
                      !.attempt = calls[c].attempt + 1,
                      !.outcome = "rejected", !.error = calls[c].lastError]]
  /\ UNCHANGED <<now, config, tokenUsageHistory, currentTokens, requestQueue,
                 isProcessingQueue, recorded>>

\* What is left of a call once processRequest is through with it: the closure
\* of execute() is gone, the caller holds the settled promise.
Retired(call) == [IdleCall EXCEPT !.pc = "done", !.outcome = call.outcome]

\* A processRequest that always goes idle and leaves the queue as it is.
FinishMutant(c) ==
  /\ calls[c].pc = "settled"
  /\ isProcessingQueue' = FALSE
  /\ calls' = [calls EXCEPT ![c] = Retired(@)]
  /\ UNCHANGED requestQueue
  /\ UNCHANGED <<now, config, tokenUsageHistory, currentTokens, recorded>>

\* The tail of processRequest once execute() has settled: hand over to the head
\* of the queue through setImmediate, or clear the flag.
Finish(c) ==
  /\ calls[c].pc = "settled"
  /\ IF Len(requestQueue) > 0
     THEN /\ requestQueue' = Tail(requestQueue)
          /\ calls' = [calls EXCEPT ![c] = Retired(@),
                                    ![Head(requestQueue)].pc = "scheduled"]
          /\ UNCHANGED isProcessingQueue
     ELSE /\ isProcessingQueue' = FALSE
          /\ calls' = [calls EXCEPT ![c] = Retired(@)]
          /\ UNCHANGED requestQueue
  /\ UNCHANGED <<now, config, tokenUsageHistory, currentTokens, recorded>>

\* What getTokenStats() returns when called on history h at time t.
TokenStats(h, t) ==
  [current |-> SumTokens(CleanHistory(h, t)),
   limit |-> config.tokensPerMinute,
   available |-> config.tokensPerMinute - SumTokens(CleanHistory(h, t))]

\* getTokenStats(): cleanupTokenHistory, then the figures are read.
GetTokenStats ==
  /\ tokenUsageHistory' = CleanHistory(tokenUsageHistory, now)
  /\ currentTokens' = TokenStats(tokenUsageHistory, now).current
  /\ UNCHANGED <<now, config, requestQueue, isProcessingQueue, calls, recorded>>

\* Time passes.
Tick(d, horizon) ==
  /\ now + d <= horizon
  /\ now' = now + d
  /\ UNCHANGED <<config, tokenUsageHistory, currentTokens, requestQueue,
                 isProcessingQueue, calls, recorded>>

\* The scheduler's own steps for the calls 1..n, and the passing of time.
Scheduler(n, horizon) ==
  \/ \E c \in 1..n : StartNext(c)
  \/ \E c \in 1..n : WakeCapacity(c)
  \/ \E c \in 1..n : Reserve(c)
  \/ \E c \in 1..n : Finish(c)
  \/ \E d \in TickSet : Tick(d, horizon)

\* The tracker and the retry loop under every kind of input, all callers using
\* the priority the agent passes.
Next ==
  \/ (\E c \in 1..MaxCalls, est \in EstSet : Submit(c, est, 1)) /\ UNCHANGED <<agentVars, pairVars>>
  \/ (\E c \in 1..MaxCalls, u \in UsageSet : RespondOk(c, u)) /\ UNCHANGED <<agentVars, pairVars>>
  \/ (\E c \in 1..MaxCalls, e \in ErrorSet : RespondErr(c, e)) /\ UNCHANGED <<agentVars, pairVars>>
  \/ (\E c \in 1..MaxCalls : WakeRetry(c)) /\ UNCHANGED <<agentVars, pairVars>>
  \/ Scheduler(MaxCalls, MaxTime) /\ UNCHANGED <<agentVars, pairVars>>
  \/ GetTokenStats /\ UNCHANGED <<agentVars, pairVars>>

Spec == Init /\ [][Next]_vars

\* The queue: more callers, with distinct priorities, and a provider that
\* answers, fails or throttles.
NextQueue ==
  \/ (\E c \in 1..MaxQueueCalls, prio \in PrioritySet : Submit(c, 400, prio)) /\ UNCHANGED <<agentVars, pairVars>>
  \/ (\E c \in 1..MaxQueueCalls : RespondOk(c, NoUsage)) /\ UNCHANGED <<agentVars, pairVars>>
  \/ (\E c \in 1..MaxQueueCalls, e \in {ErrRetryAfter, ErrFatal} : RespondErr(c, e)) /\ UNCHANGED <<agentVars, pairVars>>
  \/ (\E c \in 1..MaxQueueCalls : WakeRetry(c)) /\ UNCHANGED <<agentVars, pairVars>>
  \/ Scheduler(MaxQueueCalls, MaxQueueTime) /\ UNCHANGED <<agentVars, pairVars>>

SpecQueue == Init /\ [][NextQueue]_vars

\* The time one call can take from the moment the calls before it have made
\* their reservations: a capacity wait of up to a window, and one step of the
\* clock for the first attempt and for each retry.
CallSpan == WindowMs + (CfgMaxRetries + 1) * 30000

\* The time by which every call that arrived by MaxLiveArrival can be through.
MaxLiveTime == MaxLiveArrival + MaxLiveCalls * CallSpan

\* Call c sleeps on a timer that has not fired yet.
Sleeping(c) == calls[c].pc \in {"waitcap", "backoff"} /\ now < calls[c].wakeAt

\* Time passes while callers may still arrive or a timer is pending.
TimerTick ==
  /\ now < MaxLiveArrival \/ \E c \in 1..MaxLiveCalls : Sleeping(c)
  /\ \E d \in TickSet : Tick(d, MaxLiveTime)

\* requestFn of call c settles, one way or the other.
Respond(c) ==
  \/ RespondOk(c, NoUsage)
  \/ \E e \in {ErrRetryAfter, ErrFatal} : RespondErr(c, e)

\* What the event loop does by itself for call c: the setImmediate callback,
\* the timers of the two sleeps, the continuations of execute and of
\* processRequest.
Continue(c) ==
  \/ StartNext(c)
  \/ WakeCapacity(c)
  \/ Reserve(c)
  \/ WakeRetry(c)
  \/ Finish(c)

\* The queue under fair scheduling: callers of distinct priorities arrive up
\* to MaxLiveArrival, every requestFn settles, timers fire and callbacks run.
NextQueueLive ==
  \/ (\E c \in 1..MaxLiveCalls, prio \in PrioritySet :
        now <= MaxLiveArrival /\ Submit(c, 400, prio)) /\ UNCHANGED <<agentVars, pairVars>>
  \/ (\E c \in 1..MaxLiveCalls : Respond(c)) /\ UNCHANGED <<agentVars, pairVars>>
  \/ (\E c \in 1..MaxLiveCalls : Continue(c)) /\ UNCHANGED <<agentVars, pairVars>>
  \/ TimerTick /\ UNCHANGED <<agentVars, pairVars>>

SpecQueueLive ==
  /\ Init
  /\ [][NextQueueLive]_vars
  /\ \A c \in 1..MaxLiveCalls : WF_vars(Respond(c) /\ UNCHANGED <<agentVars, pairVars>>)
  /\ \A c \in 1..MaxLiveCalls : WF_vars(Continue(c) /\ UNCHANGED <<agentVars, pairVars>>)
  /\ WF_vars(TimerTick /\ UNCHANGED <<agentVars, pairVars>>)

\* The budget: three callers with in-range estimates and a provider that
\* always answers, with or without a usage figure.
NextBudget ==
  \/ (\E c \in 1..MaxBudgetCalls, est \in {300, 400} : Submit(c, est, 1)) /\ UNCHANGED <<agentVars, pairVars>>
  \/ (\E c \in 1..MaxBudgetCalls, u \in {NoUsage, 100} : RespondOk(c, u)) /\ UNCHANGED <<agentVars, pairVars>>
  \/ Scheduler(MaxBudgetCalls, MaxBudgetTime) /\ UNCHANGED <<agentVars, pairVars>>
  \/ GetTokenStats /\ UNCHANGED <<agentVars, pairVars>>

SpecBudget == Init /\ [][NextBudget]_vars

\* Configurations of the retry loop: the default delays, and a ceiling low
\* enough to be reached.
BackoffConfigs ==
  { NewConfig([tokensPerMinute |-> CfgTokensPerMinute,
               maxRetries |-> CfgBackoffRetries,
               initialRetryDelay |-> 0, maxRetryDelay |-> 0,
               backoffMultiplier |-> 0]),
    NewConfig([tokensPerMinute |-> CfgTokensPerMinute,
               maxRetries |-> CfgBackoffRetries,
               initialRetryDelay |-> 1000, maxRetryDelay |-> 3000,
               backoffMultiplier |-> 2]) }

InitBackoff ==
  /\ now = 0
  /\ config \in BackoffConfigs
  /\ tokenUsageHistory = <<>>
  /\ currentTokens = 0
  /\ requestQueue = <<>>
  /\ isProcessingQueue = FALSE
  /\ calls = [c \in AllCalls |-> IdleCall]
  /\ recorded = <<>>
  /\ run = InitialRun
  /\ mcpClient = TRUE
  /\ abandoned = 0
  /\ closeIssued = 0
  /\ peers = InitialPeers
  /\ shared = InitialShared
  /\ emitted = <<>>

\* Throttling errors with and without a delay suggested by the provider.
BackoffErrorSet ==
  {Err429, ErrRetryAfter, ErrTryAgainMs, ErrRetryAfterZero, ErrTryAgainSec,
   ErrFatal}

\* The retry loop of one call against a provider that throttles.
NextBackoff ==
  \/ Submit(1, 400, 1) /\ UNCHANGED <<agentVars, pairVars>>
  \/ Reserve(1) /\ UNCHANGED <<agentVars, pairVars>>
  \/ RespondOk(1, NoUsage) /\ UNCHANGED <<agentVars, pairVars>>
  \/ (\E e \in BackoffErrorSet : RespondErr(1, e)) /\ UNCHANGED <<agentVars, pairVars>>
  \/ WakeRetry(1) /\ UNCHANGED <<agentVars, pairVars>>
  \/ Finish(1) /\ UNCHANGED <<agentVars, pairVars>>
  \/ (\E d \in TickSet : Tick(d, MaxBackoffTime)) /\ UNCHANGED <<agentVars, pairVars>>

SpecBackoff == InitBackoff /\ [][NextBackoff]_vars

\* ----------------------------------------------- getRateLimiter, updateConfig
\* rateLimiterInstance is null: no limiter has been constructed.
NoConfig == [tokensPerMinute |-> NoValue, maxRetries |-> NoValue,
             initialRetryDelay |-> NoValue, maxRetryDelay |-> NoValue,
             backoffMultiplier |-> NoValue]

\* A getRateLimiter that builds a new configuration on every call.
GetRateLimiterMutant(partial) ==
  /\ config' = NewConfig(partial)
  /\ UNCHANGED <<now, tokenUsageHistory, currentTokens, requestQueue,
                 isProcessingQueue, calls, recorded>>

\* getRateLimiter(config): the instance is constructed on the first call
\* and returned as it is on every later one.
GetRateLimiter(partial) ==
  /\ config' = IF config = NoConfig THEN NewConfig(partial) ELSE config
  /\ UNCHANGED <<now, tokenUsageHistory, currentTokens, requestQueue,
                 isProcessingQueue, calls, recorded>>

\* updateConfig(partial): { ...this.config, ...partial }; a field of partial
\* that is 0 stands for one that is not given.
UpdateConfig(partial) ==
  /\ config # NoConfig
  /\ config' = [f \in DOMAIN config |->
                  IF partial[f] # 0 THEN partial[f] ELSE config[f]]
  /\ UNCHANGED <<now, tokenUsageHistory, currentTokens, requestQueue,
                 isProcessingQueue, calls, recorded>>

\* The argument runAgent passes (agent.ts, lines 486-491) for two values of
\* TOKENS_PER_MINUTE, and the empty argument.
ConfigArgs ==
  { [tokensPerMinute |-> t, maxRetries |-> 5, initialRetryDelay |-> 1000,
     maxRetryDelay |-> 60000, backoffMultiplier |-> 0] : t \in {1000, 500} }
  \cup {[tokensPerMinute |-> 0, maxRetries |-> 0, initialRetryDelay |-> 0,
          maxRetryDelay |-> 0, backoffMultiplier |-> 0]}

\* Arguments of updateConfig: a new limit, a new retry ceiling.
UpdateArgs ==
  { [tokensPerMinute |-> 700, maxRetries |-> 0, initialRetryDelay |-> 0,
     maxRetryDelay |-> 0, backoffMultiplier |-> 0],
    [tokensPerMinute |-> 0, maxRetries |-> 1, initialRetryDelay |-> 0,
     maxRetryDelay |-> 0, backoffMultiplier |-> 0] }

\* The process before its first getRateLimiter call.
InitConfig ==
  /\ now = 0
  /\ config = NoConfig
  /\ tokenUsageHistory = <<>>
  /\ currentTokens = 0
  /\ requestQueue = <<>>
  /\ isProcessingQueue = FALSE
  /\ calls = [c \in AllCalls |-> IdleCall]
  /\ recorded = <<>>
  /\ run = InitialRun
  /\ mcpClient = TRUE
  /\ abandoned = 0
  /\ closeIssued = 0
  /\ peers = InitialPeers
  /\ shared = InitialShared
  /\ emitted = <<>>

\* The singleton: it is asked for again and again and reconfigured while
\* calls go through it.
NextConfig ==
  \/ (\E partial \in ConfigArgs : GetRateLimiter(partial)) /\ UNCHANGED <<agentVars, pairVars>>
  \/ (\E partial \in UpdateArgs : UpdateConfig(partial)) /\ UNCHANGED <<agentVars, pairVars>>
  \/ (config # NoConfig /\ \E c \in 1..MaxConfigCalls : Submit(c, 400, 1))
       /\ UNCHANGED <<agentVars, pairVars>>
  \/ (\E c \in 1..MaxConfigCalls : WakeCapacity(c)) /\ UNCHANGED <<agentVars, pairVars>>
  \/ (\E c \in 1..MaxConfigCalls : Reserve(c)) /\ UNCHANGED <<agentVars, pairVars>>
  \/ (\E c \in 1..MaxConfigCalls : RespondOk(c, NoUsage)) /\ UNCHANGED <<agentVars, pairVars>>
  \/ (\E c \in 1..MaxConfigCalls : StartNext(c)) /\ UNCHANGED <<agentVars, pairVars>>
  \/ (\E c \in 1..MaxConfigCalls : Finish(c)) /\ UNCHANGED <<agentVars, pairVars>>
  \/ (\E d \in TickSet : Tick(d, MaxConfigTime)) /\ UNCHANGED <<agentVars, pairVars>>

SpecConfig == InitConfig /\ [][NextConfig]_vars

\* ================================================================ agent.ts
\* --------------------------------------------------------- pure functions
RECURSIVE SumItemLengths(_)

SumItemLengths(items) ==
  IF items = <<>> THEN 0
  ELSE Min(Head(items).len, SnapshotItemChars) + SumItemLengths(Tail(items))

\* The length of the summary truncateToolResult builds for browser_snapshot
\* (lines 30-49): url and title ('unknown' when missing) and, when there is a
\* content array, the first 500 characters of every text item joined by
\* newlines and cut to 2000.
SnapshotSummaryLength(result) ==
  LET urlLen == IF result.urlLen = 0 THEN 7 ELSE result.urlLen
      titleLen == IF result.titleLen = 0 THEN 7 ELSE result.titleLen
      texts == SelectSeq(result.content, LAMBDA c : c.type = "text")
      joined == SumItemLengths(texts) + Max(Len(texts) - 1, 0)
  IN IF result.hasContent
     THEN 51 + urlLen + titleLen + Min(joined, SnapshotPageChars)
     ELSE 30 + urlLen + titleLen

\* The length of the string truncateToolResult returns.
TruncateToolResult(result, toolName) ==
  LET content == IF toolName = "browser_snapshot"
                 THEN SnapshotSummaryLength(result)
                 ELSE result.len
  IN IF content > MAX_TOOL_RESULT_LENGTH
     THEN MAX_TOOL_RESULT_LENGTH + TruncationMarkerLength
     ELSE content

\* A log event: what onLog receives.  tag names the fixed text of the
\* message, value is the argument text interpolated into it (empty when
\* there is none) and target the element named.
LogEvent(type, tag, value, target) ==
  [type |-> type, tag |-> tag, value |-> value, target |-> target]

TypingTools == {"browser_fill", "browser_type"}

\* The value shown for a typing call (lines 68-70).
MaskedValue(args) ==
  IF Includes(args.text, PasswordWord) \/ Includes(args.name, PasswordWord)
  THEN <<"*", "*", "*", "*">>
  ELSE Substring(IF args.text # <<>> THEN args.text ELSE args.value,
                 MaskedPrefixChars)

SummarizeToolExecution(toolName, args, result) ==
  CASE toolName \in TypingTools ->
         LogEvent("info", "Typed", MaskedValue(args), args.element)
    [] toolName = "browser_click" ->
         LogEvent("info", "Clicked", <<>>, args.element)
    [] toolName = "browser_snapshot" ->
         LogEvent("info", "Snapshot taken", <<>>, "none")
    [] toolName = "runPlaywrightTests" ->
         LogEvent(IF result.success THEN "success" ELSE "warning",
                  IF result.success THEN "Tests PASSED" ELSE "Tests FAILED",
                  <<>>, "none")
    [] OTHER -> LogEvent("info", "completed", <<>>, "none")

\* A pruning that puts the anchors back in the wrong order.
PruneMutant(messages) ==
  IF Len(messages) <= MAX_MESSAGES_HISTORY + 2 THEN messages
  ELSE <<messages[2], messages[1]>>
         \o SubSeq(messages, Len(messages) - MAX_MESSAGES_HISTORY + 1, Len(messages))

\* pruneMessageHistory: the array after the call.
PruneMessageHistory(messages) ==
  IF Len(messages) <= MAX_MESSAGES_HISTORY + 2 THEN messages
  ELSE LET systemMsg == messages[1]
           initialUserMsg == messages[2]
           recentMessages ==
             SubSeq(messages, Max(Len(messages) - MAX_MESSAGES_HISTORY, 0) + 1,
                    Len(messages))
       IN <<systemMsg, initialUserMsg>> \o recentMessages

\* An error the provider call (or the scheduler) rejects with: status
\* (0: none) and what its message contains.
NoLLMError == [status |-> 0, invalidKey |-> FALSE, rateLimit |-> FALSE,
               model |-> FALSE, overloaded |-> FALSE]
LLMErr401 == [NoLLMError EXCEPT !.status = 401]
LLMErrInvalidKey == [NoLLMError EXCEPT !.invalidKey = TRUE]
LLMErrInvalidModel == [NoLLMError EXCEPT !.status = 400, !.model = TRUE]
LLMErrBadRequest == [NoLLMError EXCEPT !.status = 400]
LLMErr429 == [NoLLMError EXCEPT !.status = 429]
LLMErr503 == [NoLLMError EXCEPT !.status = 503]
LLMErr500 == [NoLLMError EXCEPT !.status = 500]
LLMErrNetwork == NoLLMError

Classified(message, code, recoverable) ==
  [message |-> message, code |-> code, recoverable |-> recoverable]

\* A classifier that tests for throttling before authentication.
ClassifyOrderMutant(e) ==
  IF e.status = 429 \/ e.rateLimit
  THEN Classified("OpenAI rate limit exceeded", "OPENAI_RATE_LIMIT", TRUE)
  ELSE IF e.status = 401 \/ e.invalidKey
  THEN Classified("OpenAI API key is invalid", "OPENAI_AUTH_ERROR", FALSE)
  ELSE IF e.status = 400 /\ e.model
  THEN Classified("Invalid model", "OPENAI_API_ERROR", FALSE)
  ELSE IF e.status = 503 \/ e.overloaded
  THEN Classified("OpenAI service is overloaded", "OPENAI_API_ERROR", TRUE)
  ELSE Classified("OpenAI API error", "OPENAI_API_ERROR", e.status >= 500)

\* classifyOpenAIError
ClassifyOpenAIError(e) ==
  IF e.status = 401 \/ e.invalidKey
  THEN Classified("OpenAI API key is invalid", "OPENAI_AUTH_ERROR", FALSE)
  ELSE IF e.status = 429 \/ e.rateLimit
  THEN Classified("OpenAI rate limit exceeded", "OPENAI_RATE_LIMIT", TRUE)
  ELSE IF e.status = 400 /\ e.model
  THEN Classified("Invalid model", "OPENAI_API_ERROR", FALSE)
  ELSE IF e.status = 503 \/ e.overloaded
  THEN Classified("OpenAI service is overloaded", "OPENAI_API_ERROR", TRUE)
  ELSE Classified("OpenAI API error", "OPENAI_API_ERROR", e.status >= 500)

AgentError(message, len, code, recoverable) ==
  [agentError |-> TRUE, code |-> code, recoverable |-> recoverable,
   message |-> message, len |-> len]

\* A test that knows only the 'Error:' prefix.
IsErrorTextMutant(item) ==
  /\ item.type = "text"
  /\ item.text # <<>>
  /\ StartsWith(item.text, <<"Error:">>)

\* The test of lines 358-362 on one content item.
IsErrorText(item) ==
  /\ item.type = "text"
  /\ item.text # <<>>
  /\ \/ StartsWith(item.text, <<"Error:">>)
     \/ Includes(item.text, <<"Unknown", "error">>)
     \/ Includes(item.text, <<"failed", "to">>)
     \/ Includes(item.text, <<"cannot", "find">>)

\* What executeTool throws for a value the MCP call resolved with
\* (lines 355-375); NoThrown when it returns the value.
EmbeddedError(result) ==
  LET bad == SelectSeq(result.content, IsErrorText)
  IN IF result.hasContent /\ bad # <<>>
     THEN AgentError(bad[1].text, bad[1].len, "TOOL_EXECUTION_FAILED", TRUE)
     ELSE IF result.hasIsError /\ result.isError
     THEN IF result.hasContent /\ result.content # <<>>
             /\ result.content[1].text # <<>>
          THEN AgentError(result.content[1].text, result.content[1].len,
                          "TOOL_EXECUTION_FAILED", TRUE)
          ELSE AgentError(<<"Unknown", "error", "from", "MCP", "tool">>, 27,
                          "TOOL_EXECUTION_FAILED", TRUE)
     ELSE NoThrown

\* JSON.stringify(toolResult) contains 'error', 'Error' or 'failed'
\* (line 755); the key isError is one such occurrence.
FailureWords == {"error", "Error", "Error:", "failed"}

MentionsFailure(result) ==
  \/ result.hasIsError
  \/ ~result.success
  \/ \E i \in 1..Len(result.content) :
       \E j \in 1..Len(result.content[i].text) :
         result.content[i].text[j] \in FailureWords

CustomTools == {"saveTestFile", "runPlaywrightTests", "listTestFiles"}

\* ----------------------------------------------------------- the run loop
\* messages.push(...)
Push(r, role, len) ==
  [r EXCEPT !.messages = Append(@, Message(role, len, r.pushes + 1)),
            !.pushes = @ + 1]

\* Fields that describe only the latest step.
\* messages.push({role: 'tool', tool_call_id: id, content})
PushTool(r, len, id) ==
  [r EXCEPT !.messages = Append(@, [Message("tool", len, r.pushes + 1)
                                      EXCEPT !.ref = id]),
            !.pushes = @ + 1]

Stepped(r) ==
  [r EXCEPT !.started = "none", !.handled = NoCall, !.how = "none",
            !.caught = NoThrown, !.rejected = NotRejected,
            !.resolved = NoToolResult]

Failure(error, errorCode) ==
  [returned |-> FALSE, success |-> FALSE, errorCode |-> errorCode,
   error |-> error]

\* A cleanup that leaves the browser open.
CleanupMutant(r, res, client) ==
  [r EXCEPT !.pc = "cleanup", !.logger = FALSE, !.exit = res,
            !.pending = <<>>, !.current = NoCall, !.retried = FALSE]

\* await cleanup() followed by a return (lines 568-585): the limiter's
\* logger is cleared, browser_close is sent when there is a client, and the
\* run waits for it at most 5 s.
Cleanup(r, res, client) ==
  [r EXCEPT !.pc = IF client THEN "closing" ELSE "cleanup",
            !.logger = FALSE,
            !.exit = res,
            !.started = IF client THEN "close" ELSE "none",
            !.pending = <<>>, !.current = NoCall, !.retried = FALSE]

\* A sendLog that writes whether or not the client is there.
BecomesMutant(r, log) ==
  /\ run' = [r EXCEPT !.sent = log]
  /\ emitted' = log
  /\ closeIssued' = closeIssued + IF r.started = "close" THEN 1 ELSE 0

\* The variables a step of the run sets: r is the new run record and log
\* the events it handed to onLog, which sendLog (index.ts, lines 128-136)
\* writes to the response while the client is connected.
Becomes(r, log) ==
  /\ run' = [r EXCEPT !.sent = IF r.connected THEN log ELSE <<>>]
  /\ emitted' = log
  /\ closeIssued' = closeIssued + IF r.started = "close" THEN 1 ELSE 0

\* A loop head that does not count its iterations.
LoopHeadNoCountMutant(maxIterations) ==
  /\ run.pc = "loop"
  /\ IF run.iterations < maxIterations
     THEN Becomes([Stepped(run) EXCEPT !.pc = "llm",
                                       !.requestSize = Len(run.messages),
                                       !.started = "llm"],
                  <<LogEvent("agent", "Agent iteration", <<>>, "none")>>)
     ELSE Becomes(Cleanup(Stepped(run),
                          Failure("Agent reached maximum iterations",
                                  "MAX_ITERATIONS"), mcpClient),
                  <<>>)
  /\ UNCHANGED <<mcpClient, abandoned>>
  /\ UNCHANGED <<limiterVars, pairVars>>

\* A loop head that runs one iteration too many.
LoopHeadMutant(maxIterations) ==
  /\ run.pc = "loop"
  /\ IF run.iterations <= maxIterations
     THEN Becomes([Stepped(run) EXCEPT !.pc = "llm", !.iterations = @ + 1,
                                       !.requestSize = Len(run.messages),
                                       !.llmCalls = @ + 1, !.started = "llm"],
                  <<LogEvent("agent", "Agent iteration", <<>>, "none")>>)
     ELSE Becomes(Cleanup(Stepped(run),
                          Failure("Agent reached maximum iterations",
                                  "MAX_ITERATIONS"), mcpClient),
                  <<>>)
  /\ UNCHANGED <<mcpClient, abandoned>>
  /\ UNCHANGED <<limiterVars, pairVars>>

\* The head of the while loop (lines 588-615): the next scheduler call, or
\* the exit of lines 824-836 when the iterations are used up.
LoopHead(maxIterations) ==
  /\ run.pc = "loop"
  /\ IF run.iterations < maxIterations
     THEN Becomes([Stepped(run) EXCEPT !.pc = "llm", !.iterations = @ + 1,
                                       !.requestSize = Len(run.messages),
                                       !.llmCalls = @ + 1, !.started = "llm"],
                  <<LogEvent("agent", "Agent iteration", <<>>, "none")>>)
     ELSE Becomes(Cleanup(Stepped(run),
                          Failure("Agent reached maximum iterations",
                                  "MAX_ITERATIONS"), mcpClient),
                  <<>>)
  /\ UNCHANGED <<mcpClient, abandoned>>
  /\ UNCHANGED <<limiterVars, pairVars>>

\* browser_close answered, failed or timed out (ok: it answered), and
\* runAgent returns.
CleanupDone(ok) ==
  /\ run.pc \in {"closing", "cleanup"}
  /\ Becomes([Stepped(run) EXCEPT !.pc = "returned",
                                  !.result = [run.exit EXCEPT !.returned = TRUE]],
             (IF run.pc = "closing" /\ ok
              THEN <<LogEvent("info", "Browser closed", <<>>, "none")>>
              ELSE <<>>)
             \o (IF run.exit.errorCode = "MAX_ITERATIONS"
                 THEN <<LogEvent("warning", "Agent stopped", <<>>, "none")>>
                 ELSE IF run.exit.errorCode = "UNKNOWN"
                 THEN <<LogEvent("error", "Agent error", <<>>, "none")>>
                 ELSE <<>>))
  /\ UNCHANGED <<mcpClient, abandoned>>
  /\ UNCHANGED <<limiterVars, pairVars>>

\* A success that leaves the error counter as it was.
LLMResolveMutant(toolCalls) ==
  /\ run.pc = "llm"
  /\ LET pushed == Push([Stepped(run) EXCEPT !.failedCalls = 0], "assistant", 0)
         pruned == [pushed EXCEPT !.messages = PruneMessageHistory(@)]
         numbered == [i \in 1..Len(toolCalls) |-> [toolCalls[i] EXCEPT !.id = i]]
     IN IF toolCalls = <<>>
        THEN Becomes(Cleanup(pruned, [returned |-> FALSE, success |-> TRUE,
                                      errorCode |-> "none", error |-> "none"],
                             mcpClient),
                     <<LogEvent("success", "Agent completed", <<>>, "none")>>)
        ELSE Becomes([pruned EXCEPT !.pc = "dispatch", !.pending = numbered,
                                    !.turn = numbered],
                     <<>>)
  /\ UNCHANGED <<mcpClient, abandoned>>
  /\ UNCHANGED <<limiterVars, pairVars>>

\* executeWithRateLimit resolves with an assistant message carrying the
\* tool calls toolCalls (lines 616, 650-698).
LLMResolve(toolCalls) ==
  /\ run.pc = "llm"
  /\ LET pushed == Push([Stepped(run) EXCEPT !.consecutiveErrors = 0,
                                             !.failedCalls = 0],
                        "assistant", 0)
         pruned == [pushed EXCEPT !.messages = PruneMessageHistory(@)]
         numbered == [i \in 1..Len(toolCalls) |-> [toolCalls[i] EXCEPT !.id = i]]
     IN IF toolCalls = <<>>
        THEN Becomes(Cleanup(pruned, [returned |-> FALSE, success |-> TRUE,
                                      errorCode |-> "none", error |-> "none"],
                             mcpClient),
                     <<LogEvent("success", "Agent completed", <<>>, "none")>>)
        ELSE Becomes([pruned EXCEPT !.pc = "dispatch", !.pending = numbered,
                                    !.turn = numbered],
                     <<>>)
  /\ UNCHANGED <<mcpClient, abandoned>>
  /\ UNCHANGED <<limiterVars, pairVars>>

\* executeWithRateLimit resolves with a response that has no choices:
\* line 650 throws a TypeError, caught at line 837.
LLMMalformed ==
  /\ run.pc = "llm"
  /\ Becomes(Cleanup([Stepped(run) EXCEPT !.consecutiveErrors = 0,
                                          !.failedCalls = 0],
                     Failure("Cannot read properties of undefined", "UNKNOWN"),
                     mcpClient),
             <<>>)
  /\ UNCHANGED <<mcpClient, abandoned>>
  /\ UNCHANGED <<limiterVars, pairVars>>

\* A handler that retries after every provider error.
LLMRejectMutant(e) ==
  /\ run.pc = "llm"
  /\ LET classifiedError == ClassifyOpenAIError(e)
         seen == [Stepped(run) EXCEPT !.rejected = e, !.failedCalls = @ + 1]
         counted == [seen EXCEPT !.consecutiveErrors = @ + 1]
     IN Becomes([counted EXCEPT !.pc = "backoff"],
                <<LogEvent("warning", "OpenAI error", <<>>, "none")>>)
  /\ UNCHANGED <<mcpClient, abandoned>>
  /\ UNCHANGED <<limiterVars, pairVars>>

\* executeWithRateLimit rejects with e (lines 617-648).
LLMReject(e) ==
  /\ run.pc = "llm"
  /\ LET classifiedError == ClassifyOpenAIError(e)
         seen == [Stepped(run) EXCEPT !.rejected = e, !.failedCalls = @ + 1]
         counted == [seen EXCEPT !.consecutiveErrors = @ + 1]
     IN IF ~classifiedError.recoverable
        THEN Becomes(Cleanup(seen,
                             Failure(classifiedError.message,
                                     classifiedError.code), mcpClient),
                     <<>>)
        ELSE IF counted.consecutiveErrors >= MAX_CONSECUTIVE_ERRORS
        THEN Becomes(Cleanup(counted,
                             Failure("Too many consecutive errors",
                                     classifiedError.code), mcpClient),
                     <<LogEvent("warning", "OpenAI error", <<>>, "none")>>)
        ELSE Becomes([counted EXCEPT !.pc = "backoff"],
                     <<LogEvent("warning", "OpenAI error", <<>>, "none")>>)
  /\ UNCHANGED <<mcpClient, abandoned>>
  /\ UNCHANGED <<limiterVars, pairVars>>

\* The wait of line 646 is over.
BackoffDone ==
  /\ run.pc = "backoff"
  /\ Becomes([Stepped(run) EXCEPT !.pc = "loop"], <<>>)
  /\ UNCHANGED <<mcpClient, abandoned>>
  /\ UNCHANGED <<limiterVars, pairVars>>

\* A catch block that reports every error to the model.
CatchToolErrorMutant(r, thrown, log) ==
  LET toolCall == Head(r.pending)
      seen == [r EXCEPT !.handled = toolCall, !.caught = thrown]
      errorLog == log \o <<LogEvent("error", "Tool failed", <<>>, "none")>>
  IN Becomes([PushTool(seen, 31 + thrown.len, toolCall.id)
                EXCEPT !.pc = "dispatch", !.pending = Tail(@),
                       !.current = NoCall, !.retried = FALSE,
                       !.how = "reported"],
             errorLog)

\* The catch block of lines 791-820 for the error thrown while handling the
\* tool call at the head of pending.
CatchToolError(r, thrown, log) ==
  LET toolCall == Head(r.pending)
      seen == [r EXCEPT !.handled = toolCall, !.caught = thrown]
      errorLog == log \o <<LogEvent("error", "Tool failed", <<>>, "none")>>
  IN IF thrown.agentError /\ ~thrown.recoverable
     THEN Becomes([Cleanup(seen, Failure(thrown.message, thrown.code), mcpClient')
                     EXCEPT !.how = "fatal"],
                  errorLog)
     ELSE Becomes([PushTool(seen, 31 + thrown.len, toolCall.id)
                     EXCEPT !.pc = "dispatch", !.pending = Tail(@),
                            !.current = NoCall, !.retried = FALSE,
                            !.how = "reported"],
                  errorLog)

\* A handler that reconnects after every lost connection.
ToolFailedMutant(r, thrown, log) ==
  IF thrown.code = "MCP_CONNECTION_LOST"
  THEN /\ mcpClient' = FALSE
       /\ Becomes([r EXCEPT !.pc = "reconnect", !.retried = TRUE],
                  log \o <<LogEvent("warning", "MCP connection lost", <<>>, "none")>>)
  ELSE /\ UNCHANGED mcpClient
       /\ CatchToolError(r, thrown, log)

\* The catch block of lines 735-750, then that of lines 791-820: a lost
\* connection is torn down and re-established once, any other error is
\* reported.
ToolFailed(r, thrown, log) ==
  IF thrown.code = "MCP_CONNECTION_LOST" /\ ~r.retried
  THEN /\ mcpClient' = FALSE
       /\ Becomes([r EXCEPT !.pc = "reconnect", !.retried = TRUE],
                  log \o <<LogEvent("warning", "MCP connection lost", <<>>, "none")>>)
  ELSE /\ UNCHANGED mcpClient
       /\ CatchToolError(r, thrown, log)

\* executeTool up to its first await (lines 319-352).
StartTool(r, toolCall, log) ==
  IF toolCall.name \notin CustomTools /\ ~mcpClient
  THEN ToolFailed([r EXCEPT !.current = toolCall],
                  AgentError(<<"MCP", "client", "not", "initialized">>, 26,
                             "MCP_CONNECTION_LOST", TRUE), log)
  ELSE /\ UNCHANGED mcpClient
       /\ Becomes([r EXCEPT !.pc = "tool", !.current = toolCall,
                            !.started = "tool", !.attempts = 1], log)

\* A guard that starts counting afresh once it has blocked a call.
DispatchMutant ==
  /\ run.pc = "dispatch"
  /\ run.pending # <<>>
  /\ LET toolCall == Head(run.pending)
         log == <<LogEvent("info", "Executing tool", <<>>, "none")>>
         r == [Stepped(run) EXCEPT !.attempts = 0, !.trailingBacks =
                 IF toolCall.name = "browser_navigate_back" THEN @ + 1 ELSE 0]
         counted == [r EXCEPT !.consecutiveNavigateBack = @ + 1]
     IN IF toolCall.name = "browser_navigate_back"
        THEN IF counted.consecutiveNavigateBack > 2
             THEN /\ Becomes([PushTool([counted EXCEPT !.consecutiveNavigateBack = 0],
                                       BlockedMessageLength, toolCall.id)
                                EXCEPT !.pending = Tail(@),
                                       !.handled = toolCall, !.how = "blocked"],
                             log \o <<LogEvent("warning", "Blocked", <<>>, "none")>>)
                  /\ UNCHANGED mcpClient
             ELSE StartTool(counted, toolCall, log)
        ELSE StartTool([r EXCEPT !.consecutiveNavigateBack = 0], toolCall, log)
  /\ UNCHANGED abandoned
  /\ UNCHANGED <<limiterVars, pairVars>>

\* Dispatch whose blocked branch skips the call without answering it.
DispatchSilentMutant ==
  /\ run.pc = "dispatch"
  /\ run.pending # <<>>
  /\ LET toolCall == Head(run.pending)
         log == <<LogEvent("info", "Executing tool", <<>>, "none")>>
         r == [Stepped(run) EXCEPT !.attempts = 0, !.trailingBacks =
                 IF toolCall.name = "browser_navigate_back" THEN @ + 1 ELSE 0]
         counted == [r EXCEPT !.consecutiveNavigateBack = @ + 1]
     IN IF toolCall.name = "browser_navigate_back"
        THEN IF counted.consecutiveNavigateBack > 2
             THEN /\ Becomes([counted EXCEPT !.pending = Tail(@),
                                             !.handled = toolCall, !.how = "blocked"],
                             log \o <<LogEvent("warning", "Blocked", <<>>, "none")>>)
                  /\ UNCHANGED mcpClient
             ELSE StartTool(counted, toolCall, log)
        ELSE StartTool([r EXCEPT !.consecutiveNavigateBack = 0], toolCall, log)
  /\ UNCHANGED abandoned
  /\ UNCHANGED <<limiterVars, pairVars>>

\* One turn of the for loop up to the first await (lines 698-734).
Dispatch ==
  /\ run.pc = "dispatch"
  /\ run.pending # <<>>
  /\ LET toolCall == Head(run.pending)
         log == <<LogEvent("info", "Executing tool", <<>>, "none")>>
         r == [Stepped(run) EXCEPT !.attempts = 0, !.trailingBacks =
                 IF toolCall.name = "browser_navigate_back" THEN @ + 1 ELSE 0]
         counted == [r EXCEPT !.consecutiveNavigateBack = @ + 1]
     IN IF toolCall.name = "browser_navigate_back"
        THEN IF counted.consecutiveNavigateBack > 2
             THEN /\ Becomes([PushTool(counted, BlockedMessageLength, toolCall.id)
                                EXCEPT !.pending = Tail(@),
                                       !.handled = toolCall, !.how = "blocked"],
                             log \o <<LogEvent("warning", "Blocked", <<>>, "none")>>)
                  /\ UNCHANGED mcpClient
             ELSE StartTool(counted, toolCall, log)
        ELSE StartTool([r EXCEPT !.consecutiveNavigateBack = 0], toolCall, log)
  /\ UNCHANGED abandoned
  /\ UNCHANGED <<limiterVars, pairVars>>

\* The for loop has no tool call left: back to the head of the while loop.
TurnDone ==
  /\ run.pc = "dispatch"
  /\ run.pending = <<>>
  /\ Becomes([Stepped(run) EXCEPT !.pc = "loop"], <<>>)
  /\ UNCHANGED <<mcpClient, abandoned>>
  /\ UNCHANGED <<limiterVars, pairVars>>

\* Lines 752-790: the click-failure nudge, the tool message and the summary
\* for the value executeTool returned.
Returned(r, toolResult) ==
  LET toolCall == r.current
      clicky == toolCall.name \in {"browser_click", "browser_press_key"}
      failed == clicky /\ MentionsFailure(toolResult)
      nudge == failed /\ r.consecutiveFailedClicks + 1 >= ModalThreshold
      tracked == [r EXCEPT !.consecutiveFailedClicks =
                    IF failed THEN (IF nudge THEN 0 ELSE @ + 1)
                    ELSE IF toolCall.name = "browser_snapshot" THEN @ ELSE 0]
      hinted == IF nudge THEN Push(tracked, "user", 0) ELSE tracked
      answered == PushTool(hinted, TruncateToolResult(toolResult, toolCall.name),
                           toolCall.id)
  IN Becomes([answered EXCEPT !.pc = "dispatch", !.pending = Tail(@),
                              !.current = NoCall, !.retried = FALSE,
                              !.handled = toolCall, !.how = "executed"],
             (IF nudge
              THEN <<LogEvent("warning", "Multiple click failures", <<>>, "none")>>
              ELSE <<>>)
             \o <<SummarizeToolExecution(toolCall.name, toolCall.args, toolResult)>>)

\* The external call resolves with result before the timeout
\* (lines 322-326, 348-377).
ToolResolve(result) ==
  /\ run.pc = "tool"
  /\ LET thrown == IF run.current.name \in CustomTools THEN NoThrown
                   ELSE EmbeddedError(result)
     IN IF thrown = NoThrown
        THEN /\ Returned([Stepped(run) EXCEPT !.resolved = result], result)
             /\ UNCHANGED mcpClient
        ELSE ToolFailed([Stepped(run) EXCEPT !.resolved = result], thrown, <<>>)
  /\ UNCHANGED abandoned
  /\ UNCHANGED <<limiterVars, pairVars>>

\* The external call rejects before the timeout with an error whose message
\* has len characters and mentions a lost connection or not
\* (lines 327-335, 378-397).
ToolReject(connection, len) ==
  /\ run.pc = "tool"
  /\ LET custom == run.current.name \in CustomTools
         thrown ==
           IF ~custom /\ connection
           THEN AgentError(<<"MCP", "connection", "lost">>, 40,
                           "MCP_CONNECTION_LOST", TRUE)
           ELSE AgentError(<<"tool", "failed:">>, 30 + len,
                           "TOOL_EXECUTION_FAILED", TRUE)
     IN ToolFailed(Stepped(run), thrown, <<>>)
  /\ UNCHANGED abandoned
  /\ UNCHANGED <<limiterVars, pairVars>>

\* The timer of withTimeout fires first (lines 290-307): the wait ends with
\* TOOL_TIMEOUT; the external call itself is not cancelled.
ToolTimeout ==
  /\ run.pc = "tool"
  /\ abandoned' = abandoned + 1
  /\ ToolFailed(Stepped(run),
                AgentError(<<"timed", "out">>, 40, "TOOL_TIMEOUT", TRUE), <<>>)
  /\ UNCHANGED <<limiterVars, pairVars>>

\* An external call whose wait had timed out comes to its end.
LateCompletion ==
  /\ abandoned > 0
  /\ abandoned' = abandoned - 1
  /\ UNCHANGED <<run, mcpClient, closeIssued, emitted>>
  /\ UNCHANGED <<limiterVars, pairVars>>

\* initializeMCPClient succeeds and the tool call is tried again
\* (lines 740-743).
ReconnectOk ==
  /\ run.pc = "reconnect"
  /\ mcpClient' = TRUE
  /\ Becomes([Stepped(run) EXCEPT !.pc = "tool", !.started = "tool",
                                  !.attempts = @ + 1], <<>>)
  /\ UNCHANGED abandoned
  /\ UNCHANGED <<limiterVars, pairVars>>

\* initializeMCPClient gives up (lines 242-247): MCP_INIT_FAILED, not
\* recoverable.
ReconnectFail ==
  /\ run.pc = "reconnect"
  /\ UNCHANGED mcpClient
  /\ CatchToolError(Stepped(run),
                    AgentError(<<"MCP", "initialization", "failed">>, 60,
                               "MCP_INIT_FAILED", FALSE), <<>>)
  /\ UNCHANGED abandoned
  /\ UNCHANGED <<limiterVars, pairVars>>

\* ------------------------------------------------ the start of runAgent
\* initializeMCPClient() as called at line 503, up to the first connection
\* attempt (lines 146-229): an existing client that answers listTools is
\* kept (alive); one that does not is cleaned up and, like a missing one,
\* replaced by a new client that starts to connect.
InitializeMCPClient(alive) ==
  /\ run.pc = "init"
  /\ IF mcpClient /\ alive
     THEN /\ UNCHANGED mcpClient
          /\ Becomes([Stepped(run) EXCEPT !.pc = "tools"], <<>>)
     ELSE /\ mcpClient' = TRUE
          /\ Becomes([Stepped(run) EXCEPT !.pc = "connect", !.retryCount = 0,
                                          !.connects = 0], <<>>)
  /\ UNCHANGED abandoned
  /\ UNCHANGED <<limiterVars, pairVars>>

\* The connection is established within 30 s (lines 229-231).
ConnectOk ==
  /\ run.pc = "connect"
  /\ Becomes([Stepped(run) EXCEPT !.pc = "tools", !.connects = @ + 1], <<>>)
  /\ UNCHANGED <<mcpClient, abandoned>>
  /\ UNCHANGED <<limiterVars, pairVars>>

\* The connection attempt fails or times out (lines 232-248): the client is
\* cleaned up, and either another attempt is made after a back-off or
\* MCP_INIT_FAILED is thrown, which nothing catches before line 587.
ConnectFail ==
  /\ run.pc = "connect"
  /\ mcpClient' = FALSE
  /\ IF run.retryCount < MAX_RETRIES
     THEN Becomes([Stepped(run) EXCEPT !.pc = "initwait", !.connects = @ + 1],
                  <<>>)
     ELSE Becomes([Stepped(run) EXCEPT
                     !.pc = "rejected", !.connects = @ + 1,
                     !.rejection =
                       AgentError(<<"MCP", "initialization", "failed", "after",
                                    "3", "attempts">>, 60,
                                  "MCP_INIT_FAILED", FALSE)],
                  <<>>)
  /\ UNCHANGED abandoned
  /\ UNCHANGED <<limiterVars, pairVars>>

\* The back-off of line 238 is over: initializeMCPClient(retryCount + 1)
\* creates a new client and connects again.
ConnectRetry ==
  /\ run.pc = "initwait"
  /\ mcpClient' = TRUE
  /\ Becomes([Stepped(run) EXCEPT !.pc = "connect", !.retryCount = @ + 1], <<>>)
  /\ UNCHANGED abandoned
  /\ UNCHANGED <<limiterVars, pairVars>>

\* getAllTools() at line 505: listTools answers (ok) and the loop is
\* entered, or it rejects and so does runAgent, with a plain Error.
GetAllTools(ok) ==
  /\ run.pc = "tools"
  /\ IF mcpClient /\ ok
     THEN Becomes([Stepped(run) EXCEPT !.pc = "loop"], <<>>)
     ELSE Becomes([Stepped(run) EXCEPT
                     !.pc = "rejected",
                     !.rejection = [NoThrown EXCEPT
                                      !.message = <<"listTools", "failed">>,
                                      !.len = 16]],
                  <<>>)
  /\ UNCHANGED <<mcpClient, abandoned>>
  /\ UNCHANGED <<limiterVars, pairVars>>

\* ------------------------------------------- POST /api/start-test (index.ts)
\* The client goes away (req 'close' or 'error', res 'error'): the handler's
\* cleanup of lines 115-121 clears isClientConnected and forgets the request.
\* Nothing is said to runAgent.
Disconnect ==
  /\ run.connected
  /\ run.pc # "responded"
  /\ run' = [run EXCEPT !.connected = FALSE, !.sent = <<>>]
  /\ UNCHANGED <<mcpClient, abandoned, closeIssued, emitted>>
  /\ UNCHANGED <<limiterVars, pairVars>>

\* runAgent resolved (lines 171-182): the final 'complete' event is written
\* and the response ended, unless the client has gone.
HandlerDone ==
  /\ run.pc = "returned"
  /\ run' = [Stepped(run) EXCEPT !.pc = "responded", !.sent = <<>>,
                                 !.final = IF run.connected THEN "complete" ELSE @]
  /\ emitted' = <<>>
  /\ UNCHANGED <<mcpClient, abandoned, closeIssued>>
  /\ UNCHANGED <<limiterVars, pairVars>>

\* runAgent rejected (lines 183-206): an error log and the final 'error'
\* event are written, unless the client has gone.
HandlerCatch ==
  /\ run.pc = "rejected"
  /\ run' = [Stepped(run) EXCEPT
               !.pc = "responded",
               !.sent = IF run.connected
                        THEN <<LogEvent("error", "Fatal error", <<>>, "none")>>
                        ELSE <<>>,
               !.final = IF run.connected THEN "error" ELSE @]
  /\ emitted' = <<>>
  /\ UNCHANGED <<mcpClient, abandoned, closeIssued>>
  /\ UNCHANGED <<limiterVars, pairVars>>

\* ------------------------------------------------------------------ inputs
Call(name, args) == [name |-> name, args |-> args, id |-> 0]

Chars_s3cret == <<"s", "3", "c", "r", "e", "t">>
Chars_hunter2 == <<"h", "u", "n", "t", "e", "r", "2">>
Chars_my_password == <<"m", "y", "_">> \o PasswordWord
Chars_long == [i \in 1..(MaskedPrefixChars + 2) |-> IF i > MaskedPrefixChars THEN "z" ELSE "k"]

\* The credentials the agent types into password fields.
SecretSet == {Chars_s3cret, Chars_hunter2, Chars_long}

Snapshot == Call("browser_snapshot", NoArgs)
NavigateBack == Call("browser_navigate_back", NoArgs)
Click == Call("browser_click", [NoArgs EXCEPT !.element = "Login button"])
RunTests == Call("runPlaywrightTests", NoArgs)
PressKey == Call("browser_press_key", NoArgs)
TypeInto(element, text) ==
  Call("browser_type", [NoArgs EXCEPT !.element = element, !.text = text])

TextItem(text, len) == [type |-> "text", text |-> text, len |-> len]
WithContent(items, len) ==
  [NoToolResult EXCEPT !.hasContent = TRUE, !.content = items, !.len = len]

OkResult == WithContent(<<TextItem(<<"Page", "loaded">>, 11)>>, 60)
TestsFailed == [NoToolResult EXCEPT !.success = FALSE, !.len = 200]

\* Results the automation server answers with: plain ones of several sizes,
\* ones that only mention an error, and ones carrying each error indicator.
PlainResults ==
  { OkResult,
    WithContent(<<TextItem(<<"Page", "loaded">>, 4000)>>, 4049),
    WithContent(<<TextItem(<<"Page", "loaded">>, 9000)>>, 9049),
    WithContent(<<TextItem(<<"no", "Error:", "here">>, 14),
                  TextItem(<<"Failed", "To", "load">>, 14)>>, 110),
    [WithContent(<<TextItem(<<"Page", "loaded">>, 11)>>, 80)
       EXCEPT !.hasIsError = TRUE] }

MarkedResults ==
  { WithContent(<<TextItem(<<"Error:", "no", "such", "element">>, 9000)>>, 9049),
    WithContent(<<TextItem(<<"An", "Unknown", "error", "occurred">>, 25)>>, 74),
    WithContent(<<[type |-> "image", text |-> <<>>, len |-> 0],
                  TextItem(<<"click", "failed", "to", "complete">>, 24)>>, 120),
    WithContent(<<TextItem(<<"Page", "loaded">>, 11),
                  TextItem(<<"cannot", "find", "ref">>, 15)>>, 110),
    [WithContent(<<TextItem(<<"Page", "loaded">>, 11)>>, 80)
       EXCEPT !.hasIsError = TRUE, !.isError = TRUE],
    [NoToolResult EXCEPT !.hasIsError = TRUE, !.isError = TRUE, !.len = 16] }

LLMErrorSet == {LLMErr401, LLMErrInvalidKey, LLMErrInvalidModel,
                LLMErrBadRequest, LLMErr429, LLMErr503, LLMErr500,
                LLMErrNetwork}

\* Numbers of tool calls an assistant message carries under SpecHistory.
TurnSizes == {0, 1, 3}

SnapshotTurn(n) == IF n = 0 THEN <<>> ELSE [i \in 1..n |-> Snapshot]

\* The sequences of length 1..n over the set S.
Turns(S, n) == UNION {[1..k -> S] : k \in 1..n}

\* ---------------------------------------------------------- specifications
\* Long runs: the assistant asks for snapshots, one or several a turn, and
\* every call succeeds.
NextHistory ==
  \/ LoopHead(MaxHistoryIterations)
  \/ \E n \in TurnSizes : LLMResolve(SnapshotTurn(n))
  \/ Dispatch
  \/ TurnDone
  \/ ToolResolve(OkResult)
  \/ CleanupDone(TRUE)

SpecHistory == Init /\ [][NextHistory]_vars

\* The control loop: provider errors of every class, navigation, clicks and
\* test runs that succeed, fail, time out or lose the connection.
NextLoop ==
  \/ LoopHead(MaxIterations)
  \/ LLMResolve(<<>>)
  \/ \E calls_ \in Turns({NavigateBack, Click, RunTests}, MaxTurn) : LLMResolve(calls_)
  \/ \E e \in LLMErrorSet : LLMReject(e)
  \/ LLMMalformed
  \/ BackoffDone
  \/ Dispatch
  \/ TurnDone
  \/ ToolResolve(OkResult)
  \/ \E connection \in BOOLEAN : ToolReject(connection, 20)
  \/ ToolTimeout
  \/ LateCompletion
  \/ ReconnectOk
  \/ ReconnectFail
  \/ \E ok \in BOOLEAN : CleanupDone(ok)

SpecLoop == Init /\ [][NextLoop]_vars

\* The gateway: one tool call a turn, with every kind of result, of
\* argument and of failure.
NextGateway ==
  \/ LoopHead(MaxGatewayIterations)
  \/ LLMResolve(<<>>)
  \/ \E c \in {Snapshot, Click, RunTests, TypeInto("Username", Chars_my_password)}
             \cup {TypeInto("Password", s) : s \in SecretSet} : LLMResolve(<<c>>)
  \/ Dispatch
  \/ TurnDone
  \/ \E result \in PlainResults \cup MarkedResults \cup {TestsFailed} : ToolResolve(result)
  \/ \E len \in {20, 9000} : ToolReject(FALSE, len)
  \/ ToolTimeout
  \/ LateCompletion
  \/ CleanupDone(TRUE)

SpecGateway == Init /\ [][NextGateway]_vars

\* Results of a click: a plain one, one whose text only mentions an error,
\* one that carries the key isError set to false, and one the gateway turns
\* into an error.
GuardResults ==
  { OkResult,
    WithContent(<<TextItem(<<"no", "Error:", "here">>, 14)>>, 63),
    [WithContent(<<TextItem(<<"Page", "loaded">>, 11)>>, 80)
       EXCEPT !.hasIsError = TRUE],
    WithContent(<<TextItem(<<"Error:", "no", "such", "element">>, 60)>>, 109) }

\* The click-failure guard: clicks, key presses, snapshots and test runs
\* that succeed or fail.
NextGuard ==
  \/ LoopHead(MaxGuardIterations)
  \/ LLMResolve(<<>>)
  \/ \E calls_ \in Turns({Click, PressKey, Snapshot, RunTests}, MaxTurn) : LLMResolve(calls_)
  \/ Dispatch
  \/ TurnDone
  \/ \E result \in GuardResults : ToolResolve(result)
  \/ ToolReject(FALSE, 20)
  \/ CleanupDone(TRUE)

SpecGuard == Init /\ [][NextGuard]_vars

\* runAgent called by the handler, with or without a client left by an
\* earlier run, before the automation connection is checked.
InitStart ==
  /\ now = 0
  /\ config = NewConfig([tokensPerMinute |-> CfgTokensPerMinute,
                         maxRetries |-> CfgMaxRetries,
                         initialRetryDelay |-> 0, maxRetryDelay |-> 0,
                         backoffMultiplier |-> 0])
  /\ tokenUsageHistory = <<>>
  /\ currentTokens = 0
  /\ requestQueue = <<>>
  /\ isProcessingQueue = FALSE
  /\ calls = [c \in AllCalls |-> IdleCall]
  /\ recorded = <<>>
  /\ run = [InitialRun EXCEPT !.pc = "init"]
  /\ mcpClient \in BOOLEAN
  /\ abandoned = 0
  /\ closeIssued = 0
  /\ peers = InitialPeers
  /\ shared = InitialShared
  /\ emitted = <<>>

\* A whole request: the connection is established or not, the tools are
\* listed or not, and a short run follows.
NextStart ==
  \/ \E alive \in BOOLEAN : InitializeMCPClient(alive)
  \/ ConnectOk
  \/ ConnectFail
  \/ ConnectRetry
  \/ \E ok \in BOOLEAN : GetAllTools(ok)
  \/ LoopHead(MaxStartIterations)
  \/ LLMResolve(<<>>)
  \/ \E e \in LLMErrorSet : LLMReject(e)
  \/ BackoffDone
  \/ \E ok \in BOOLEAN : CleanupDone(ok)
  \/ HandlerDone
  \/ HandlerCatch
  \/ Disconnect

SpecStart == InitStart /\ [][NextStart]_vars

\* The steps of a run whose external calls all come back: the provider
\* answers, fails or answers nonsense; tools answer, fail, time out or lose
\* the connection.
RunSteps ==
  \/ LoopHead(MaxLiveIterations)
  \/ LLMResolve(<<>>)
  \/ \E calls_ \in Turns({NavigateBack, Click}, MaxTurn) : LLMResolve(calls_)
  \/ \E e \in {LLMErr401, LLMErr429} : LLMReject(e)
  \/ LLMMalformed
  \/ BackoffDone
  \/ Dispatch
  \/ TurnDone
  \/ ToolResolve(OkResult)
  \/ \E connection \in BOOLEAN : ToolReject(connection, 20)
  \/ ToolTimeout
  \/ ReconnectOk
  \/ ReconnectFail
  \/ \E ok \in BOOLEAN : CleanupDone(ok)

NextLive ==
  \/ RunSteps
  \/ LateCompletion

\* Every await of the run is on a call that settles, and the continuation
\* of a settled promise is run: the run's next step is taken whenever one
\* stays possible.
SpecLive == Init /\ [][NextLive]_vars /\ WF_vars(RunSteps)

\* A client that may go away while the run and the limiter are at work.
NextCancel ==
  \/ Submit(1, 400, 1) /\ UNCHANGED <<agentVars, pairVars>>
  \/ Reserve(1) /\ UNCHANGED <<agentVars, pairVars>>
  \/ (\E u \in {NoUsage, 100} : RespondOk(1, u)) /\ UNCHANGED <<agentVars, pairVars>>
  \/ Finish(1) /\ UNCHANGED <<agentVars, pairVars>>
  \/ (\E d \in TickSet : Tick(d, MaxCancelTime)) /\ UNCHANGED <<agentVars, pairVars>>
  \/ GetTokenStats /\ UNCHANGED <<agentVars, pairVars>>
  \/ LoopHead(MaxCancelIterations)
  \/ LLMResolve(<<>>)
  \/ LLMResolve(<<Click>>)
  \/ \E e \in {LLMErr401, LLMErr503} : LLMReject(e)
  \/ BackoffDone
  \/ Dispatch
  \/ TurnDone
  \/ ToolResolve(OkResult)
  \/ \E connection \in BOOLEAN : ToolReject(connection, 20)
  \/ ReconnectOk
  \/ ReconnectFail
  \/ \E ok \in BOOLEAN : CleanupDone(ok)
  \/ Disconnect
  \/ HandlerDone

SpecCancel == Init /\ [][NextCancel]_vars

\* Every combination of a status (0: none) with what the message contains.
LLMErrorSpace ==
  [status : {0, 400, 401, 404, 429, 500, 503}, invalidKey : BOOLEAN,
   rateLimit : BOOLEAN, model : BOOLEAN, overloaded : BOOLEAN]

\* The classifier: a provider that fails in every way.
NextClassify ==
  \/ LoopHead(MaxIterations)
  \/ \E e \in LLMErrorSpace : LLMReject(e)
  \/ BackoffDone
  \/ \E ok \in BOOLEAN : CleanupDone(ok)

SpecClassify == Init /\ [][NextClassify]_vars

\* ------------------------------------------------- two runs, one process
\* What the steps of run p below leave alone.
PairFrame == UNCHANGED <<limiterVars, agentVars>>

\* The state after a step of one run: its own record and the shared state.
After(pr, sh) == [p |-> pr, s |-> sh]

\* initializeMCPClient from line 163 to the await of line 226:
\* mcpInitializing = true, a new transport, a new client assigned to
\* mcpClient, connect() started.
StartConnect(pr, sh) ==
  LET t == sh.made + 1
  IN After([pr EXCEPT !.pc = "connecting", !.mine = t],
           [sh EXCEPT !.mcpInitializing = TRUE, !.made = t, !.mcpTransport = t,
                      !.mcpClient = t, !.open = @ \cup {t}])

\* initializeMCPClient from the test of line 157: wait a second when another
\* initialization is flagged, start connecting otherwise.
FromInitializingTest(pr, sh) ==
  IF sh.mcpInitializing THEN After([pr EXCEPT !.pc = "initwait"], sh)
  ELSE StartConnect(pr, sh)

\* initializeMCPClient(retryCount) from its first line: an existing client is
\* asked for its tools.
FromTop(pr, sh, retryCount) ==
  IF sh.mcpClient # 0
  THEN After([pr EXCEPT !.pc = "health", !.probe = sh.mcpClient,
                        !.retryCount = retryCount], sh)
  ELSE FromInitializingTest([pr EXCEPT !.retryCount = retryCount], sh)

\* The transport t is closed: its server process and its browser are gone.
Closed(sh, t) ==
  [sh EXCEPT !.open = @ \ {t}, !.connected = @ \ {t},
             !.browser = IF @ = t THEN 0 ELSE @]

\* The caller of cleanupMCPClient goes on once it has returned: the health
\* check to the test of mcpInitializing, the catch block of
\* initializeMCPClient to its retry sleep or its throw, the reconnect path of
\* the tool dispatch to initializeMCPClient().
AfterCleanup(pr, sh, after) ==
  CASE after = "health" -> FromInitializingTest(pr, sh)
    [] after = "connect" ->
         After([pr EXCEPT !.pc = IF pr.retryCount < MAX_RETRIES
                                 THEN "retrysleep" ELSE "failed"], sh)
    [] OTHER -> FromTop(pr, sh, 0)

\* cleanupMCPClient() up to its await: close() is called on mcpTransport.
\* Without a transport it runs to its end, mcpClient = null, and its caller
\* goes on.
CleanupMCPClient(pr, sh, after) ==
  IF sh.mcpTransport # 0
  THEN After([pr EXCEPT !.pc = "closing", !.after = after],
             Closed(sh, sh.mcpTransport))
  ELSE AfterCleanup(pr, [sh EXCEPT !.mcpClient = 0], after)

\* Run p takes the step that leads to state next; no more than MaxTransports
\* transports are made.
Takes(p, next) ==
  /\ next.s.made <= MaxTransports
  /\ peers' = [peers EXCEPT ![p] = next.p]
  /\ shared' = next.s
  /\ PairFrame

\* rateLimiter.setLogger(callback): the callback of run callback, 0 for null.
SetLogger(sh, callback) == [sh EXCEPT !.logger = callback]

\* runAgent from its first line to the first await of initializeMCPClient
\* (lines 486-503): the limiter's logger becomes this run's callback.
PeerRunAgent(p) ==
  /\ peers[p].pc = "idle"
  /\ Takes(p, FromTop(peers[p], SetLogger(shared, p), 0))

\* The health check resolves (line 149): initializeMCPClient returns.  A
\* client whose connect() is still pending may answer or not.
PeerHealthOk(p) ==
  /\ peers[p].pc = "health"
  /\ peers[p].probe \in shared.open
  /\ Takes(p, After([peers[p] EXCEPT !.pc = "ready"], shared))

\* The health check rejects (lines 151-154): cleanupMCPClient.
PeerHealthFail(p) ==
  /\ peers[p].pc = "health"
  /\ peers[p].probe \notin shared.connected
  /\ Takes(p, CleanupMCPClient(peers[p], shared, "health"))

\* cleanupMCPClient after its await (lines 900-901): mcpTransport = null,
\* mcpClient = null, and the caller goes on.
PeerTransportClosed(p) ==
  /\ peers[p].pc = "closing"
  /\ Takes(p, AfterCleanup([peers[p] EXCEPT !.after = "none"],
                           [shared EXCEPT !.mcpTransport = 0, !.mcpClient = 0],
                           peers[p].after))

\* The second of line 159 is over (line 160).
PeerWaitOver(p) ==
  /\ peers[p].pc = "initwait"
  /\ Takes(p, IF shared.mcpClient # 0
              THEN After([peers[p] EXCEPT !.pc = "ready"], shared)
              ELSE StartConnect(peers[p], shared))

\* connect() resolves before the timeout (lines 226-228).
PeerConnectOk(p) ==
  /\ peers[p].pc = "connecting"
  /\ peers[p].mine \in shared.open
  /\ Takes(p, After([peers[p] EXCEPT !.pc = "ready"],
                    [shared EXCEPT !.connected = @ \cup {peers[p].mine},
                                   !.mcpInitializing = FALSE]))

\* connect() rejects or the 30 s are over (lines 229-231): the catch block
\* clears the flag and calls cleanupMCPClient.
PeerConnectFail(p) ==
  /\ peers[p].pc = "connecting"
  /\ Takes(p, CleanupMCPClient(peers[p],
                               [shared EXCEPT !.mcpInitializing = FALSE],
                               "connect"))

\* The sleep of line 235 is over: initializeMCPClient(retryCount + 1).
PeerRetry(p) ==
  /\ peers[p].pc = "retrysleep"
  /\ Takes(p, FromTop(peers[p], shared, peers[p].retryCount + 1))

\* The run hands an LLM call to the limiter (line 611).
PeerLLMCall(p) ==
  /\ peers[p].pc = "ready"
  /\ Takes(p, After([peers[p] EXCEPT !.pc = "llm"], shared))

\* RateLimiter.log (lines 65-70) while the call of run p is served: the
\* message goes to the callback installed at that moment, if any.
PeerLimiterLog(p) ==
  /\ peers[p].pc = "llm"
  /\ peers[p].said < MaxSaid
  /\ peers' = [q \in Peers |->
       LET told == IF q = shared.logger
                   THEN [peers[q] EXCEPT !.heard[p] = @ + 1] ELSE peers[q]
       IN IF q = p THEN [told EXCEPT !.said = @ + 1] ELSE told]
  /\ UNCHANGED shared
  /\ PairFrame

\* The LLM call of run p settles.
PeerLLMDone(p) ==
  /\ peers[p].pc = "llm"
  /\ Takes(p, After([peers[p] EXCEPT !.pc = "ready"], shared))

\* executeTool for a browser tool (lines 339-351): without a client it throws
\* MCP_CONNECTION_LOST and the dispatch loop goes to its reconnect path
\* (lines 736-743); with one, callTool is awaited.
PeerToolCall(p) ==
  /\ peers[p].pc = "ready"
  /\ Takes(p, IF shared.mcpClient = 0
              THEN CleanupMCPClient(peers[p], shared, "reconnect")
              ELSE After([peers[p] EXCEPT !.pc = "tool", !.on = shared.mcpClient],
                         shared))

\* callTool resolves: the server of the client has a browser session.
PeerToolDone(p) ==
  /\ peers[p].pc = "tool"
  /\ peers[p].on \in shared.connected
  /\ Takes(p, After([peers[p] EXCEPT !.pc = "ready", !.on = 0],
                    [shared EXCEPT !.browser = peers[p].on]))

\* callTool rejects with a connection error: the reconnect path.
PeerToolLost(p) ==
  /\ peers[p].pc = "tool"
  /\ peers[p].on \notin shared.connected
  /\ Takes(p, CleanupMCPClient([peers[p] EXCEPT !.on = 0], shared, "reconnect"))

\* cleanup() of runAgent (lines 567-585) up to its await: the limiter's
\* logger is cleared and, when there is a client, browser_close is sent.
PeerCleanup(p) ==
  /\ peers[p].pc = "ready"
  /\ Takes(p, IF shared.mcpClient # 0
              THEN After([peers[p] EXCEPT !.pc = "closingbrowser",
                                          !.on = shared.mcpClient],
                         SetLogger(shared, 0))
              ELSE After([peers[p] EXCEPT !.pc = "done"],
                         SetLogger(shared, 0)))

\* browser_close has been served, or has failed: the run returns.
PeerBrowserClosed(p) ==
  /\ peers[p].pc = "closingbrowser"
  /\ Takes(p, After([peers[p] EXCEPT !.pc = "done", !.on = 0],
                    [shared EXCEPT !.browser =
                       IF peers[p].on \in shared.connected /\ @ = peers[p].on
                       THEN 0 ELSE @]))

\* Two runAgent calls in one process, each at its own pace.
NextPair ==
  \/ \E p \in Peers : PeerRunAgent(p)
  \/ \E p \in Peers : PeerHealthOk(p)
  \/ \E p \in Peers : PeerHealthFail(p)
  \/ \E p \in Peers : PeerTransportClosed(p)
  \/ \E p \in Peers : PeerWaitOver(p)
  \/ \E p \in Peers : PeerConnectOk(p)
  \/ \E p \in Peers : PeerConnectFail(p)
  \/ \E p \in Peers : PeerRetry(p)
  \/ \E p \in Peers : PeerLLMCall(p)
  \/ \E p \in Peers : PeerLimiterLog(p)
  \/ \E p \in Peers : PeerLLMDone(p)
  \/ \E p \in Peers : PeerToolCall(p)
  \/ \E p \in Peers : PeerToolDone(p)
  \/ \E p \in Peers : PeerToolLost(p)
  \/ \E p \in Peers : PeerCleanup(p)
  \/ \E p \in Peers : PeerBrowserClosed(p)

SpecPair == Init /\ [][NextPair]_vars

\* ------------------------------------------------------------------ claims
Live == {"waitcap", "admitted", "inflight", "backoff", "settled"}

\* C1: at most one execute body (capacity wait, reservation, attempts, retry
\* sleeps) is in progress at any time: while one call is in its body every
\* other submitted call is waiting in the queue or has finished, and a call
\* submitted while another was executing is in its body only once that one is
\* through.
C1_OneBodyAtATime ==
  /\ Cardinality({c \in AllCalls : InBody(c)}) <= 1
  /\ \A c \in AllCalls : InBody(c) =>
       /\ isProcessingQueue
       /\ \A d \in AllCalls \ {c} : calls[d].pc \in {"idle", "queued", "done"}
       /\ calls[c].busyWith # 0 => calls[calls[c].busyWith].pc = "done"
  /\ \A c \in AllCalls : calls[c].pc = "queued" =>
       \E i \in DOMAIN requestQueue : requestQueue[i] = c

\* A call that was queued behind an executing one is now in its own body, the
\* earlier call finished, while another call still waits in the queue.
C1_Witness ==
  \E c \in AllCalls, d \in AllCalls :
    /\ calls[c].pc = "backoff" /\ calls[c].busyWith # 0
    /\ calls[calls[c].busyWith].pc = "done"
    /\ calls[d].pc = "queued" /\ calls[d].busyWith = c

\* c is served before d: higher priority, or equal priority and earlier arrival.
ServedBefore(c, d) ==
  \/ calls[c].priority > calls[d].priority
  \/ calls[c].priority = calls[d].priority /\ calls[c].arrival < calls[d].arrival

\* C2: a queued call leaves the queue only when the in-flight call finishes,
\* and the one that leaves is the highest-priority, earliest-submitted call
\* among those waiting.
C2_PriorityOrder ==
  [][\A c \in AllCalls :
       (calls[c].pc = "queued" /\ calls'[c].pc # "queued") =>
         /\ calls'[c].pc = "scheduled"
         /\ \E e \in AllCalls : calls[e].pc = "settled" /\ calls'[e].pc = "done"
         /\ \A d \in AllCalls \ {c} : calls[d].pc = "queued" => ServedBefore(c, d)]_vars

\* Priorities 1, 5, 3 were submitted in that order while call 1 executed; call 1
\* has finished, the priority-5 call has been dequeued and the queue now holds
\* the priority-3 call ahead of the priority-1 call.
C2_Witness ==
  /\ calls[1].pc = "done"
  /\ calls[2].priority = 1 /\ calls[3].priority = 5 /\ calls[4].priority = 3
  /\ \A c \in {2, 3, 4} : calls[c].busyWith = 1
  /\ calls[3].pc = "scheduled"
  /\ requestQueue = <<4, 2>>

RECURSIVE MaxEscape(_, _)
\* The largest reservation in the window that was admitted by the "max wait
\* time exceeded, proceeding anyway" branch.
MaxEscape(log, t) ==
  IF log = <<>> THEN 0
  ELSE Max(IF /\ Head(log).admit = "maxwait"
              /\ t - Head(log).timestamp < WindowMs
           THEN Head(log).tokens ELSE 0,
           MaxEscape(Tail(log), t))

\* C3: the current usage the tracker reports never exceeds tokensPerMinute by
\* more than one reservation admitted through the max-wait escape valve.
C3_UsageWithinLimit ==
  TokenStats(tokenUsageHistory, now).current
    <= config.tokensPerMinute + MaxEscape(recorded, now)

\* C4: whenever the usage is observed, the figure reported is the sum of
\* exactly the amounts recorded less than 60 s earlier.
C4_ReportedIsWindowSum ==
  /\ TokenStats(tokenUsageHistory, now).current = WindowSum(recorded, now)
  /\ currentTokens = SumTokens(tokenUsageHistory)

\* A record exactly 60 s old is left out of a non-zero reported usage that
\* counts a younger record.
C4_Witness ==
  /\ \E i \in DOMAIN recorded : now - recorded[i].timestamp = WindowMs
  /\ \E i \in DOMAIN recorded : now - recorded[i].timestamp < WindowMs
  /\ TokenStats(tokenUsageHistory, now).current # 0
  /\ tokenUsageHistory = CleanHistory(tokenUsageHistory, now)
  /\ currentTokens = TokenStats(tokenUsageHistory, now).current

\* The entries of the log recorded for call c.
RecordsOf(c) == SelectSeq(recorded, LAMBDA r : r.call = c)

\* C5: once a call that reserved E has succeeded reporting A # E, the tracker
\* counts exactly A for it; when A = E or no usage is reported, only the
\* reservation was recorded.
C5_ChargeIsActual ==
  \A c \in AllCalls :
    (calls[c].pc = "settled" /\ calls[c].outcome = "resolved") =>
      IF calls[c].usage # NoUsage /\ calls[c].usage # calls[c].tokens
      THEN /\ calls[c].charge = calls[c].usage
           /\ Len(RecordsOf(c)) = 2
      ELSE Len(RecordsOf(c)) = 1

\* C6: a call whose estimatedTokens is zero or negative records nothing when
\* it reserves.
C6_NonPositiveReservationNoop ==
  \A c \in AllCalls :
    (calls[c].pc \in {"inflight", "backoff", "settled"} /\ calls[c].est <= 0) =>
      Len(RecordsOf(c)) = 0

\* C7: whenever waitForTokenCapacity returns for a request larger than
\* tokensPerMinute, the call proceeds with the warning logged.
C7_OversizeWarned ==
  \A c \in AllCalls :
    (calls[c].pc = "admitted" /\ calls[c].tokens > config.tokensPerMinute) =>
      "maxwait" \in calls[c].logged

\* C8: a request of 0 < t <= limit is admitted without sleeping exactly when
\* limit - current >= t on entry; while it waits nothing is recorded for it, and
\* it is admitted after waiting only once limit - current >= t or the maximum
\* total wait has elapsed.
C8_ImmediateIffCapacity ==
  \A c \in AllCalls :
    (0 < calls[c].tokens /\ calls[c].tokens <= config.tokensPerMinute) =>
      /\ calls[c].pc = "waitcap" =>
           /\ calls[c].availAtEntry < calls[c].tokens
           /\ Len(RecordsOf(c)) = 0
      /\ calls[c].pc = "admitted" =>
           /\ (calls[c].capSleeps = 0) <=> (calls[c].availAtEntry >= calls[c].tokens)
           /\ Len(RecordsOf(c)) = 0
           /\ calls[c].admit \in {"capacity", "maxwait"}
           /\ (calls[c].admit = "capacity")
                <=> (calls[c].availAtAdmit >= calls[c].tokens)
      /\ calls[c].pc = "inflight" => Len(RecordsOf(c)) = 1

\* With limit 1000, reservations of 400 and 400 were recorded (usage 800) and
\* a request of 300 is waiting, having found 200 available.
C8_Witness ==
  /\ config.tokensPerMinute = 1000
  /\ Len(recorded) = 2
  /\ recorded[1].tokens = 400 /\ recorded[2].tokens = 400
  /\ TokenStats(tokenUsageHistory, now).current = 800
  /\ \E c \in AllCalls :
       /\ calls[c].pc = "waitcap" /\ calls[c].tokens = 300
       /\ calls[c].availAtEntry = 200 /\ calls[c].capSleeps = 1

\* The claims' reading of a throttling error: status 429, or '429' or 'rate
\* limit' in the message.
Throttling(e) == e.status = 429 \/ e.msg429 \/ e.msgRateLimit

\* C9: requestFn is invoked at most maxRetries + 1 times per call; a call that
\* is rejected with a throttling error made maxRetries + 1 attempts, slept
\* after each but the last and surfaces the last attempt's error; a call that
\* is resolved slept once after each attempt before the successful one.
C9_BoundedRetries ==
  \A c \in AllCalls :
    /\ calls[c].invocations <= config.maxRetries + 1
    /\ (calls[c].pc = "settled" /\ calls[c].outcome = "rejected"
          /\ Throttling(calls[c].error)) =>
         /\ calls[c].invocations = config.maxRetries + 1
         /\ calls[c].retrySleeps = config.maxRetries
         /\ calls[c].error = calls[c].lastError
    /\ (calls[c].pc = "settled" /\ calls[c].outcome = "resolved") =>
         calls[c].invocations = calls[c].retrySleeps + 1

\* A call has been rejected with a throttling error after all its attempts.
C9_Witness ==
  \E c \in AllCalls :
    /\ calls[c].pc = "settled" /\ calls[c].outcome = "rejected"
    /\ Throttling(calls[c].error)
    /\ calls[c].invocations = CfgMaxRetries + 1

C11_PruneKeepsAnchorsAndRecent ==
  LET h == run.messages
      n == Len(h)
      p == PruneMessageHistory(h)
  IN /\ n <= MAX_MESSAGES_HISTORY + 2 => p = h
     /\ n > MAX_MESSAGES_HISTORY + 2 =>
          /\ Len(p) = MAX_MESSAGES_HISTORY + 2
          /\ \A i \in 1..MAX_MESSAGES_HISTORY :
               p[2 + i] = h[n - MAX_MESSAGES_HISTORY + i]
     /\ p[1] = h[1] /\ p[2] = h[2]
     /\ h[1].role = "system" /\ h[2].role = "user"
     /\ PruneMessageHistory(p) = p

\* A run whose history has been pruned (the third message is no longer the
\* third one pushed) and has grown over the ceiling again.
C11_Witness ==
  /\ Len(run.messages) > MAX_MESSAGES_HISTORY + 2
  /\ run.messages[3].seq > 3

\* C12: every completion request carries at most MAX_MESSAGES_HISTORY + 2
\* messages.
C12_RequestWithinCeiling ==
  run.requestSize <= MAX_MESSAGES_HISTORY + 2

\* C13: the guard blocks exactly the 3rd and every later consecutive
\* browser_navigate_back call, counted across assistant turns: a blocked
\* call is not executed and is answered by a tool message, the 1st and 2nd
\* are executed, and any other tool call brings the counter back to zero.
\* run.trailingBacks is the number of browser_navigate_back calls at the end
\* of the sequence of tool calls the run has come to so far.
C13_BackGuard ==
  /\ [](run.consecutiveNavigateBack = run.trailingBacks)
  /\ [][run'.trailingBacks = run.trailingBacks + 1 =>
          IF run'.trailingBacks >= 3
          THEN /\ run'.how = "blocked"
               /\ run'.handled = Head(run.pending)
               /\ run'.started = "none"
               /\ run'.pc = "dispatch"
               /\ run'.current = NoCall
               /\ run'.pending = Tail(run.pending)
               /\ run'.messages =
                    Append(run.messages,
                           [Message("tool", BlockedMessageLength, run'.pushes)
                              EXCEPT !.ref = run'.handled.id])
          ELSE /\ run'.how = "none"
               /\ run'.started = "tool"
               /\ run'.pc = "tool"
               /\ run'.current = Head(run.pending)
               /\ run'.current.name = "browser_navigate_back"
               /\ run'.messages = run.messages]_vars
  /\ [][(run.pc = "dispatch" /\ run.pending # <<>> /\ run' # run
           /\ Head(run.pending).name # "browser_navigate_back")
          => run'.consecutiveNavigateBack = 0]_vars

\* The 4th consecutive back navigation, the 2nd of its turn, is blocked.
C13_Witness ==
  /\ run.how = "blocked"
  /\ run.trailingBacks = 4
  /\ run.handled.id = 2

\* C14: a run makes at most MAX_ITERATIONS scheduler calls, those that
\* retry after a recoverable provider error included; when the iterations
\* are used up without a final message the run leaves with
\* {success: false, errorCode: MAX_ITERATIONS}, and browser_close has been
\* sent before that result is returned.
C14_MaxIterations ==
  /\ [](run.llmCalls <= MaxIterations)
  /\ [][(run.pc = "loop" /\ run.iterations >= MaxIterations /\ run' # run) =>
          /\ run'.exit = Failure("Agent reached maximum iterations",
                                 "MAX_ITERATIONS")
          /\ run'.started = "close"
          /\ closeIssued' = closeIssued + 1
          /\ ~run'.result.returned]_vars
  /\ [](run.exit.errorCode = "MAX_ITERATIONS" =>
          /\ run.llmCalls = MaxIterations
          /\ closeIssued >= 1
          /\ run.started \notin {"llm", "tool"}
          /\ run.result \in {NoResult, [run.exit EXCEPT !.returned = TRUE]})
  /\ [](run.result.returned /\ run.result.errorCode = "MAX_ITERATIONS" =>
          ~run.result.success /\ closeIssued >= 1)

\* The result MAX_ITERATIONS is returned by a run whose last iteration was
\* a retry after a recoverable provider error.
C14_Witness ==
  /\ run.result.returned
  /\ run.result.errorCode = "MAX_ITERATIONS"
  /\ run.consecutiveErrors >= 1
  /\ closeIssued = 1

\* C15: when the scheduler call fails with an error classified as not
\* recoverable, the run ends at once with the classified message and code:
\* no scheduler call and no tool call is started after it, and cleanup (the
\* browser_close call) precedes the return of the result.
C15_FatalProviderError ==
  /\ [][(run' # run /\ run'.rejected # NotRejected
           /\ ~ClassifyOpenAIError(run'.rejected).recoverable) =>
          /\ run.pc = "llm"
          /\ run'.pc = "closing"
          /\ run'.started = "close"
          /\ closeIssued' = closeIssued + 1
          /\ run'.exit = Failure(ClassifyOpenAIError(run'.rejected).message,
                                 ClassifyOpenAIError(run'.rejected).code)
          /\ ~run'.result.returned
          /\ run'.pending = <<>>]_vars
  /\ [][(run.exit # NoResult /\ run' # run) =>
          /\ run'.exit = run.exit
          /\ run'.llmCalls = run.llmCalls
          /\ run'.started = "none"
          /\ run'.pc \in {"closing", "cleanup", "returned"}
          /\ run'.result \in {NoResult, [run.exit EXCEPT !.returned = TRUE]}]_vars
  /\ [](run.rejected \in {LLMErr401, LLMErrInvalidKey, LLMErrInvalidModel}
          => run.exit.errorCode \in {"OPENAI_AUTH_ERROR", "OPENAI_API_ERROR"}
             /\ ~run.exit.success)

\* The second scheduler call of a run fails with 401, after a first turn
\* with a tool call; the run has returned OPENAI_AUTH_ERROR.
C15_Witness ==
  /\ run.result.returned
  /\ run.result = [returned |-> TRUE, success |-> FALSE,
                   errorCode |-> "OPENAI_AUTH_ERROR",
                   error |-> "OpenAI API key is invalid"]
  /\ run.llmCalls = 2
  /\ closeIssued = 1
  /\ Len(run.messages) >= 4

\* The error indicators of a remote tool result: a text item that starts
\* with 'Error:' or contains 'Unknown error', 'failed to' or 'cannot find',
\* or isError = true.
HasErrorIndicator(result) ==
  \/ result.hasIsError /\ result.isError
  \/ \E i \in 1..Len(result.content) :
       LET item == result.content[i]
       IN /\ item.type = "text"
          /\ \/ Len(item.text) >= 1 /\ item.text[1] = "Error:"
             \/ \E j \in 1..(Len(item.text) - 1) :
                  <<item.text[j], item.text[j + 1]>> \in
                    {<<"Unknown", "error">>, <<"failed", "to">>,
                     <<"cannot", "find">>}

\* C16: a remote tool result that arrives as a success of the transport but
\* carries an error indicator is never returned as a success: executeTool
\* throws a recoverable AgentError with code TOOL_EXECUTION_FAILED (which
\* the loop then reports to the model).
C16_EmbeddedErrorRaised ==
  (run.resolved # NoToolResult /\ run.handled.name \notin CustomTools
     /\ HasErrorIndicator(run.resolved)) =>
    /\ run.how = "reported"
    /\ run.caught.agentError
    /\ run.caught.code = "TOOL_EXECUTION_FAILED"
    /\ run.caught.recoverable
    /\ \A i \in 1..Len(emitted) : emitted[i].type = "error"

\* A click answers with an image and a text saying it 'failed to' complete.
C16_Witness ==
  /\ run.how = "reported"
  /\ run.handled.name = "browser_click"
  /\ run.resolved.hasContent
  /\ Len(run.resolved.content) = 2
  /\ run.resolved.content[2].text = <<"click", "failed", "to", "complete">>
  /\ ~run.resolved.hasIsError

\* C17: a tool failure flagged recoverable (or not an AgentError) does not
\* end the run: it is logged, a tool message reporting it is appended and
\* the loop goes on with the next tool call of the turn; a failure flagged
\* not recoverable ends the run at once: the remaining tool calls of the
\* turn are dropped and cleanup precedes the return of the failure.
\* run.caught is the error that reached the catch block of the latest step.
C17_ToolFailureHandling ==
  /\ [][(run' # run /\ run'.caught # NoThrown) =>
          LET fatal == run'.caught.agentError /\ ~run'.caught.recoverable
          IN /\ \E i \in 1..Len(emitted') : emitted'[i].type = "error"
             /\ run.pending # <<>>
             /\ run'.handled = Head(run.pending)
             /\ IF fatal
                THEN /\ run'.how = "fatal"
                     /\ run'.pc \in {"closing", "cleanup"}
                     /\ run'.pc = "closing" <=> mcpClient'
                     /\ closeIssued' = closeIssued + IF mcpClient' THEN 1 ELSE 0
                     /\ run'.exit = Failure(run'.caught.message, run'.caught.code)
                     /\ ~run'.result.returned
                     /\ run'.pending = <<>>
                     /\ run'.messages = run.messages
                     /\ run'.started # "tool"
                ELSE /\ run'.how = "reported"
                     /\ run'.pc = "dispatch"
                     /\ run'.exit = NoResult
                     /\ run'.pending = Tail(run.pending)
                     /\ run'.messages =
                          Append(run.messages,
                                 [Message("tool", 31 + run'.caught.len, run'.pushes)
                                    EXCEPT !.ref = run'.handled.id])]_vars
  /\ [][(run.exit # NoResult /\ run' # run) =>
          /\ run'.started = "none"
          /\ run'.pending = <<>>
          /\ run'.pc \in {"closing", "cleanup", "returned"}
          /\ run'.exit = run.exit]_vars

\* The first tool call of a turn of two fails for good (the connection was
\* lost and could not be re-established), after a recoverable failure in an
\* earlier turn.
C17_Witness ==
  /\ run.how = "fatal"
  /\ run.caught.code = "MCP_INIT_FAILED"
  /\ run.handled.id = 1
  /\ Len(run.turn) = 2
  /\ \E i \in 1..Len(run.messages) :
       run.messages[i].role = "tool" /\ run.messages[i].len = 31 + 50

\* C18: the tool calls of a turn are executed in the order requested and
\* one at a time: no external invocation is started while an earlier one
\* is still running.  abandoned counts the invocations that are still
\* running after their wait ended with TOOL_TIMEOUT.
C18_OneToolAtATime ==
  run.pc = "tool" =>
    /\ run.current = Head(run.pending)
    /\ run.current.id = Len(run.turn) - Len(run.pending) + 1
    /\ abandoned = 0

\* C19: every tool-role message of the history, whether it carries a
\* result, the notice of a blocked call or a reported error, has a content
\* of at most MAX_TOOL_RESULT_LENGTH characters plus the truncation marker.
C19_ToolMessagesBounded ==
  \A i \in 1..Len(run.messages) :
    run.messages[i].role = "tool" =>
      run.messages[i].len <= MAX_TOOL_RESULT_LENGTH + TruncationMarkerLength

\* C20: no log event emitted for a browser_type / browser_fill call that
\* types a credential contains the typed value or a prefix of it cut at 30
\* characters, and the events are the same whichever credential is typed.
C20_SecretsNotLogged ==
  (run.handled.name \in TypingTools /\ run.handled.args.text \in SecretSet) =>
    /\ \A i \in 1..Len(emitted) :
         ~Includes(emitted[i].value,
                   Substring(run.handled.args.text, MaskedPrefixChars))
    /\ \A other \in SecretSet :
         run.how = "executed" =>
           emitted[Len(emitted)] =
             SummarizeToolExecution(run.handled.name,
                                    [run.handled.args EXCEPT !.text = other],
                                    run.resolved)

\* The rules of provider error classification, in their order: the number
\* of the first rule that applies.
RuleOf(e) ==
  CASE e.status = 401 \/ e.invalidKey -> 1
    [] ~(e.status = 401 \/ e.invalidKey) /\ (e.status = 429 \/ e.rateLimit) -> 2
    [] ~(e.status = 401 \/ e.invalidKey) /\ ~(e.status = 429 \/ e.rateLimit)
         /\ (e.status = 400 /\ e.model) -> 3
    [] ~(e.status = 401 \/ e.invalidKey) /\ ~(e.status = 429 \/ e.rateLimit)
         /\ ~(e.status = 400 /\ e.model) /\ (e.status = 503 \/ e.overloaded) -> 4
    [] OTHER -> 5

\* C30: a provider error is classified by the first of these rules that
\* applies: 401 or an invalid-key message, never recoverable; 429 or a
\* rate-limit message, recoverable; 400 mentioning the model, never
\* recoverable; 503 or 'overloaded', recoverable; any other error,
\* recoverable exactly when its status is at least 500.  The run ends with
\* the classified code when the error is not recoverable and goes on to a
\* retry (or ends on the third error in a row) when it is.
C30_ClassificationRules ==
  run.rejected # NotRejected =>
    LET e == run.rejected
        c == ClassifyOpenAIError(e)
    IN /\ c.recoverable = CASE RuleOf(e) = 1 -> FALSE
                            [] RuleOf(e) = 2 -> TRUE
                            [] RuleOf(e) = 3 -> FALSE
                            [] RuleOf(e) = 4 -> TRUE
                            [] OTHER -> e.status >= 500
       /\ c.code = CASE RuleOf(e) = 1 -> "OPENAI_AUTH_ERROR"
                     [] RuleOf(e) = 2 -> "OPENAI_RATE_LIMIT"
                     [] OTHER -> "OPENAI_API_ERROR"
       /\ e.status = 0 /\ RuleOf(e) = 5 => ~c.recoverable
       /\ ~c.recoverable =>
            run.pc = "closing" /\ run.exit = Failure(c.message, c.code)
       /\ c.recoverable =>
            \/ run.pc = "backoff" /\ run.exit = NoResult
            \/ /\ run.pc = "closing"
               /\ run.consecutiveErrors = MAX_CONSECUTIVE_ERRORS
               /\ run.exit.errorCode = c.code

\* A 401 whose message also speaks of a rate limit ends the run as an
\* authentication error.
C30_Witness ==
  /\ run.rejected = [status |-> 401, invalidKey |-> FALSE, rateLimit |-> TRUE,
                     model |-> FALSE, overloaded |-> FALSE]
  /\ run.pc = "closing"
  /\ run.exit.errorCode = "OPENAI_AUTH_ERROR"

\* C25: a run never sees more than MAX_CONSECUTIVE_ERRORS (3) failed
\* scheduler calls in a row.  A recoverable provider error adds one to
\* consecutiveErrors; below the ceiling the run backs off and goes back to
\* the head of the loop, at the ceiling it ends as failed with the code of
\* that last error; a scheduler call that succeeds sets the counter to zero.
C25_ConsecutiveErrors ==
  /\ [](/\ run.failedCalls <= MAX_CONSECUTIVE_ERRORS
        /\ run.consecutiveErrors <= MAX_CONSECUTIVE_ERRORS
        /\ run.pc \in {"llm", "backoff", "loop", "dispatch", "tool", "reconnect"}
             => run.consecutiveErrors < MAX_CONSECUTIVE_ERRORS)
  /\ [][run.pc = "llm" /\ run' # run /\ run'.rejected # NotRejected
          /\ ClassifyOpenAIError(run'.rejected).recoverable
        => /\ run'.consecutiveErrors = run.consecutiveErrors + 1
           /\ IF run'.consecutiveErrors < MAX_CONSECUTIVE_ERRORS
              THEN run'.pc = "backoff" /\ run'.exit = NoResult
              ELSE /\ run'.pc \in {"closing", "cleanup"}
                   /\ ~run'.exit.success
                   /\ run'.exit.errorCode
                        = ClassifyOpenAIError(run'.rejected).code]_vars
  /\ [][run.pc = "backoff" /\ run' # run
        => run'.pc = "loop" /\ run'.consecutiveErrors = run.consecutiveErrors]_vars
  /\ [][run.pc = "llm" /\ run' # run /\ run'.rejected = NotRejected
        => run'.consecutiveErrors = 0]_vars

\* Two throttled calls, then a success that resets the counter.
C25_WitnessReset ==
  /\ run.pc = "dispatch"
  /\ run.iterations = 3
  /\ run.consecutiveErrors = 0
  /\ run.llmCalls = 3
  /\ run.pushes = 3
  /\ run.turn # <<>>

\* The third recoverable error in a row (a 503 after others) ends the run
\* with its code.
C25_Witness ==
  /\ run.rejected = LLMErr503
  /\ run.consecutiveErrors = MAX_CONSECUTIVE_ERRORS
  /\ run.failedCalls = MAX_CONSECUTIVE_ERRORS
  /\ run.pc = "closing"
  /\ run.exit.errorCode = "OPENAI_API_ERROR"

\* C27: a tool call that raises MCP_CONNECTION_LOST has its connection torn
\* down and re-established and is then invoked once more, never a third
\* time: a lost connection is reported to the model as a tool message only
\* when it was the retry that failed, and a re-initialization that fails
\* (MCP_INIT_FAILED, not recoverable) ends the run with that code.
C27_ReconnectOnce ==
  /\ [](/\ run.attempts <= 2
        /\ run.pc = "reconnect" => ~mcpClient /\ run.retried /\ run.attempts <= 1
        /\ run.caught.code = "MCP_CONNECTION_LOST"
             => /\ run.how = "reported"
                /\ run.pc = "dispatch"
                /\ run.attempts \in {1, 2}
                /\ run.messages[Len(run.messages)].role = "tool")
  /\ [][run'.pc = "reconnect" /\ run.pc # "reconnect"
        => /\ ~run.retried
           /\ run.pc \in {"dispatch", "tool"}
           /\ run'.pending = run.pending
           /\ run'.current = Head(run.pending)
           /\ Len(run'.messages) = Len(run.messages)]_vars
  /\ [][run.pc = "reconnect" /\ run' # run
        => \/ /\ mcpClient'
              /\ run'.pc = "tool"
              /\ run'.current = run.current
              /\ run'.pending = run.pending
              /\ run'.attempts = run.attempts + 1
           \/ /\ run'.pc \in {"closing", "cleanup"}
              /\ run'.exit = Failure(<<"MCP", "initialization", "failed">>,
                                     "MCP_INIT_FAILED")
              /\ Len(run'.messages) = Len(run.messages)]_vars
  /\ [][run.pc = "tool" /\ run.retried /\ run' # run
        => /\ run'.pc = "dispatch"
           /\ run'.handled = run.current
           /\ run'.pending = Tail(run.pending)
           /\ Len(run'.messages) > Len(run.messages)]_vars

\* The retry after a reconnect loses the connection again and is reported.
C27_Witness ==
  /\ run.caught.code = "MCP_CONNECTION_LOST"
  /\ run.attempts = 2
  /\ run.how = "reported"
  /\ mcpClient

\* The re-initialization failed and the run is ending with MCP_INIT_FAILED.
C27_WitnessInitFailed ==
  /\ run.exit.errorCode = "MCP_INIT_FAILED"
  /\ run.caught.code = "MCP_INIT_FAILED"
  /\ ~mcpClient

RECURSIVE Power(_, _)
Power(b, k) == IF k = 0 THEN 1 ELSE b * Power(b, k - 1)

\* The delay a provider error suggests, in ms, in any of the three forms it
\* can take; NoValue when it suggests none.
SuggestedDelay(e) ==
  IF e.retryAfterHeader # NoValue THEN e.retryAfterHeader * 1000
  ELSE IF e.tryAgainMs # NoValue THEN e.tryAgainMs
  ELSE IF e.tryAgainSec # NoValue THEN e.tryAgainSec * 1000
  ELSE NoValue

\* C24: after the throttled attempt k the scheduler sleeps for the delay the
\* provider suggested when the error carries one, and otherwise for
\* min(initialRetryDelay * backoffMultiplier^k, maxRetryDelay).
C24_BackoffDelay ==
  [][\A c \in AllCalls :
       calls[c].pc = "inflight" /\ calls'[c].pc = "backoff"
       => LET e == calls'[c].lastError
              k == calls[c].attempt
          IN calls'[c].wakeAt - now =
               IF SuggestedDelay(e) # NoValue THEN SuggestedDelay(e)
               ELSE Min(config.initialRetryDelay * Power(config.backoffMultiplier, k),
                        config.maxRetryDelay)]_vars

\* What the retry loop does: a delay read from the retry-after header or from
\* "try again in <n>ms" is slept for when it is not zero, and every other
\* throttling error is followed by the exponential delay.
BackoffDelayAsCoded ==
  [][\A c \in AllCalls :
       calls[c].pc = "inflight" /\ calls'[c].pc = "backoff"
       => LET e == calls'[c].lastError
              k == calls[c].attempt
              suggested == IF e.retryAfterHeader # NoValue
                           THEN e.retryAfterHeader * 1000 ELSE e.tryAgainMs
          IN calls'[c].wakeAt - now =
               IF suggested > 0 THEN suggested
               ELSE Min(config.initialRetryDelay * Power(config.backoffMultiplier, k),
                        config.maxRetryDelay)]_vars

\* The step completed a tool call: executeTool returned or threw.
CallCompleted == run'.how \in {"executed", "reported"} /\ run' # run

\* The call completed by the step failed: executeTool threw, or the result
\* it returned mentions a failure.
CallFailed == run'.how = "reported" \/ MentionsFailure(run'.resolved)

\* The step pushed the user-role hint (before the tool message).
HintInjected ==
  /\ Len(run'.messages) = Len(run.messages) + 2
  /\ run'.messages[Len(run'.messages) - 1].role = "user"

\* C26: the third failed browser_click / browser_press_key call in a row
\* (snapshots in between not counting) makes the loop inject one user-role
\* hint and set the failure counter to zero; a failed one before that adds
\* one to the counter; a successful one, and any other tool call that is not
\* a snapshot, sets the counter to zero and injects nothing.
C26_ClickGuard ==
  [][CallCompleted =>
       LET name == run'.handled.name
       IN IF name \in {"browser_click", "browser_press_key"}
          THEN IF CallFailed
               THEN IF run.consecutiveFailedClicks + 1 >= ModalThreshold
                    THEN run'.consecutiveFailedClicks = 0 /\ HintInjected
                    ELSE /\ run'.consecutiveFailedClicks
                              = run.consecutiveFailedClicks + 1
                         /\ ~HintInjected
               ELSE run'.consecutiveFailedClicks = 0 /\ ~HintInjected
          ELSE IF name = "browser_snapshot"
          THEN /\ run'.consecutiveFailedClicks = run.consecutiveFailedClicks
               /\ ~HintInjected
          ELSE run'.consecutiveFailedClicks = 0 /\ ~HintInjected]_vars

\* What the guard does: only calls that executeTool returned from are looked
\* at; a call that threw leaves the counter as it was.
ClickGuardAsCoded ==
  [][CallCompleted =>
       LET name == run'.handled.name
       IN IF run'.how = "reported"
          THEN /\ run'.consecutiveFailedClicks = run.consecutiveFailedClicks
               /\ ~HintInjected
          ELSE IF name \in {"browser_click", "browser_press_key"}
          THEN IF MentionsFailure(run'.resolved)
               THEN IF run.consecutiveFailedClicks + 1 >= ModalThreshold
                    THEN run'.consecutiveFailedClicks = 0 /\ HintInjected
                    ELSE /\ run'.consecutiveFailedClicks
                              = run.consecutiveFailedClicks + 1
                         /\ ~HintInjected
               ELSE run'.consecutiveFailedClicks = 0 /\ ~HintInjected
          ELSE IF name = "browser_snapshot"
          THEN /\ run'.consecutiveFailedClicks = run.consecutiveFailedClicks
               /\ ~HintInjected
          ELSE run'.consecutiveFailedClicks = 0 /\ ~HintInjected]_vars

\* The positions of the run inside the iteration loop.
InLoop == {"loop", "llm", "backoff", "dispatch", "tool", "reconnect"}

\* C22 as stated: on every path by which runAgent returns after entering
\* the loop, browser_close has been issued and the limiter's logger cleared
\* before the result is returned.
C22_CloseOnEveryExit ==
  run.result.returned => closeIssued >= 1 /\ ~run.logger

\* C22, amended: on every path by which runAgent returns after entering the
\* loop, cleanup has run before the result is returned: the limiter's logger
\* is cleared, and browser_close has been issued once if an automation
\* client exists at that moment.  No client exists only on the exit that
\* follows a failed re-initialization (MCP_INIT_FAILED), whose connection
\* was torn down before.
C22_CleanupBeforeReturn ==
  /\ [](run.result.returned
          => /\ ~run.logger
             /\ closeIssued = IF mcpClient THEN 1 ELSE 0
             /\ ~mcpClient => run.result.errorCode = "MCP_INIT_FAILED")
  /\ [](run.pc \in InLoop => run.logger /\ closeIssued = 0)
  /\ [][run'.result.returned /\ ~run.result.returned
        => /\ run.pc \in {"closing", "cleanup"}
           /\ ~run.logger
           /\ run'.result = [run.exit EXCEPT !.returned = TRUE]
           /\ closeIssued' = closeIssued
           /\ run.pc = "closing" <=> mcpClient]_vars

\* The run returns UNKNOWN after an unexpected exception, the browser closed.
C22_Witness ==
  /\ run.result.returned
  /\ run.result.errorCode = "UNKNOWN"
  /\ closeIssued = 1
  /\ ~run.logger

\* C23: when the client disconnects while the agent is running, the run
\* goes on and still closes the automation session before it returns; the
\* tracker's figure stays the sum of its records that have not expired; and
\* from the disconnect on no log event and no final result is written to
\* the response.
C23_CancelledRun ==
  /\ [](/\ currentTokens = SumTokens(tokenUsageHistory)
        /\ TokenStats(tokenUsageHistory, now).current = WindowSum(recorded, now))
  /\ [](~run.connected /\ run.pc \in {"returned", "responded"}
          => /\ ~run.logger
             /\ closeIssued = 1 \/ ~mcpClient
             /\ run.final = "none")
  /\ [][~run.connected
        => /\ run'.sent = <<>>
           /\ run'.final = "none"
           /\ ~run'.connected]_vars
  /\ [][run.connected /\ ~run'.connected
        => /\ run'.pc = run.pc
           /\ run'.exit = run.exit
           /\ mcpClient' = mcpClient
           /\ closeIssued' = closeIssued
           /\ tokenUsageHistory' = tokenUsageHistory
           /\ currentTokens' = currentTokens
           /\ calls' = calls]_vars

\* A run whose client left returns: 'Browser closed' was handed to onLog and
\* not written, while the tracker holds a record.
C23_Witness ==
  /\ ~run.connected
  /\ run.pc = "returned"
  /\ closeIssued = 1
  /\ emitted # <<>>
  /\ run.sent = <<>>
  /\ run.iterations = 2
  /\ tokenUsageHistory # <<>>

\* C21: runAgent never rejects: whatever happens, and also when the
\* automation connection cannot be established or its tools cannot be
\* listed, it resolves with a result that says success or carries an error
\* and an error code.
C21_AlwaysStructuredResult ==
  /\ run.pc # "rejected"
  /\ run.pc = "responded"
       => /\ run.result.returned
          /\ run.result.success \/ run.result.errorCode # "none"

\* C28: one top-level initializeMCPClient call makes at most MAX_RETRIES (3)
\* connection attempts, and has made 3 when it throws MCP_INIT_FAILED, as
\* the message of that error says.
C28_ThreeAttempts ==
  /\ run.connects <= MAX_RETRIES
  /\ run.rejection.code = "MCP_INIT_FAILED" => run.connects = MAX_RETRIES

\* What initializeMCPClient does: MAX_RETRIES retries after the first
\* attempt.
ConnectAttemptsAsCoded ==
  /\ run.connects <= MAX_RETRIES + 1
  /\ run.connects <= run.retryCount + 1
  /\ run.rejection.code = "MCP_INIT_FAILED"
       => run.connects = MAX_RETRIES + 1 /\ ~run.rejection.recoverable

\* Codes of a run that ended as failed.
FailedCodes ==
  {"OPENAI_AUTH_ERROR", "OPENAI_RATE_LIMIT", "OPENAI_API_ERROR",
   "MCP_INIT_FAILED", "UNKNOWN"}

\* How far a run is from its end: the iterations left, then the position
\* inside the iteration, then the tool calls left in the turn.
StepsLeft(r) ==
  IF r.pc = "returned" THEN 0
  ELSE IF r.pc \in {"closing", "cleanup"} THEN 1
  ELSE 2 + (MaxLiveIterations - r.iterations) * (4 * MaxTurn + 3)
         + CASE r.pc = "loop" -> 0
             [] r.pc = "backoff" -> 1
             [] r.pc = "dispatch" -> 4 * Len(r.pending) + 1
             [] r.pc = "tool" /\ ~r.retried -> 4 * Len(r.pending)
             [] r.pc = "reconnect" -> 4 * Len(r.pending) - 1
             [] r.pc = "tool" /\ r.retried -> 4 * Len(r.pending) - 2
             [] r.pc = "llm" -> 4 * MaxTurn + 2

\* C29: when every external call comes back, a run ends, in exactly one of
\* the outcomes DONE (success), FAILED and MAX_ITERATIONS, and returns one
\* result that is not changed afterwards; every step of the run brings it
\* nearer to its end, so no state of the loop is visited twice.
C29_RunTerminates ==
  /\ <>(run.pc = "returned")
  /\ [](run.pc = "returned"
          => /\ run.result.returned
             /\ \/ run.result.success /\ run.result.errorCode = "none"
                \/ ~run.result.success /\ run.result.errorCode = "MAX_ITERATIONS"
                \/ ~run.result.success /\ run.result.errorCode \in FailedCodes)
  /\ [](run.pc # "returned" => run.result = NoResult)
  /\ [][run.pc = "returned" => run' = run]_vars
  /\ [][run' # run => StepsLeft(run') < StepsLeft(run)]_vars

\* The run has returned MAX_ITERATIONS after two turns of tool calls.
C29_Witness ==
  /\ run.pc = "returned"
  /\ run.result.errorCode = "MAX_ITERATIONS"
  /\ run.iterations = MaxLiveIterations
  /\ run.pushes > 4

\* ------------------------------------------------ claims on shared state
\* C31: once the limiter exists, a getRateLimiter call, whatever its
\* argument, leaves the configuration, the usage history and the queue as
\* they are; a step that changes the configuration is an updateConfig, and
\* it leaves the recorded usage as it is.
C31_ConfigFixedByFirstCall ==
  /\ [][config # NoConfig /\ (\E partial \in ConfigArgs : GetRateLimiter(partial))
        => UNCHANGED <<limiterVars, pairVars>>]_vars
  /\ [][config # NoConfig /\ config' # config
        => /\ \E partial \in UpdateArgs : UpdateConfig(partial)
           /\ UNCHANGED <<tokenUsageHistory, currentTokens, requestQueue,
                          recorded, calls>>]_vars
  /\ [][config = NoConfig /\ config' # config
        => \E partial \in ConfigArgs : config' = NewConfig(partial)]_vars

\* The limiter built with a limit of 500 still has it (and usage on record)
\* although it has since been asked for with other arguments; only the
\* retry ceiling was updated.
C31_Witness ==
  /\ config.tokensPerMinute = 500
  /\ config.maxRetries = 1
  /\ tokenUsageHistory # <<>>
  /\ requestQueue # <<>>

\* C32: whatever was reserved, reconciled and evicted, the usage the tracker
\* reports is not negative and the capacity it reports as available is not
\* above tokensPerMinute.
C32_UsageNonNegative ==
  /\ TokenStats(tokenUsageHistory, now).current >= 0
  /\ TokenStats(tokenUsageHistory, now).available <= config.tokensPerMinute
  /\ currentTokens >= 0

\* ------------------------------------------- claims on the message history
\* The tool-role message at position i of the history has, before it in the
\* history, the assistant message that asked for it: the nearest assistant
\* message before it, pushed in the same pass of the loop.
HasRequest(messages, i) ==
  \E j \in 1..(i - 1) :
    /\ messages[j].role = "assistant"
    /\ messages[i].seq - messages[j].seq = i - j
    /\ \A k \in (j + 1)..(i - 1) : messages[k].role # "assistant"

\* C33: every tool-role message kept by a pruning still has before it, in
\* the history, the assistant message whose tool_calls it answers.
C33_ToolResultsKeepTheirRequest ==
  \A i \in 1..Len(run.messages) :
    run.messages[i].role = "tool" => HasRequest(run.messages, i)

\* C34: between an assistant message and a tool-role message that answers
\* it there is no user-role message: the tool results of a turn follow the
\* assistant message without interruption.
C34_ToolResultsContiguous ==
  \A i \in 1..Len(run.messages) :
    \A j \in 1..(i - 1) :
      /\ run.messages[i].role = "tool"
      /\ run.messages[j].role = "assistant"
      /\ \A k \in (j + 1)..(i - 1) : run.messages[k].role # "assistant"
      => \A k \in (j + 1)..(i - 1) : run.messages[k].role # "user"

\* The tool_call_ids of the tool-role messages that follow the last assistant
\* message of the history, in the order of the history.
RECURSIVE AnswersOfTurn(_)
AnswersOfTurn(messages) ==
  IF messages = <<>> \/ messages[Len(messages)].role = "assistant" THEN <<>>
  ELSE LET last == messages[Len(messages)]
           before == AnswersOfTurn(SubSeq(messages, 1, Len(messages) - 1))
       IN IF last.role = "tool" THEN Append(before, last.ref) ELSE before

\* The calls of the current assistant turn that the for loop has gone through.
ProcessedCalls(r) == SubSeq(r.turn, 1, Len(r.turn) - Len(r.pending))

\* C35: while the for loop of a turn is running, the tool-role messages pushed
\* since the assistant message are exactly one per processed call, carrying
\* the ids of those calls in the order of the calls, whether a call returned,
\* failed recoverably or was blocked by the back-navigation guard.
C35_OneAnswerPerCall ==
  run.pc \in {"dispatch", "tool", "reconnect"} =>
    AnswersOfTurn(run.messages)
      = [i \in 1..Len(ProcessedCalls(run)) |-> ProcessedCalls(run)[i].id]

C35_Witness ==
  /\ run.pc = "dispatch"
  /\ run.pending = <<>>
  /\ Len(run.turn) = 2
  /\ run.how = "blocked"
  /\ AnswersOfTurn(run.messages) = <<1, 2>>

C35_WitnessFailed ==
  /\ run.pc = "dispatch"
  /\ Len(run.turn) = 2
  /\ run.how = "reported"
  /\ AnswersOfTurn(run.messages) = <<1, 2>>

\* ---------------------------------------------------------------------------
\* claims on the reservation of a call
\* ---------------------------------------------------------------------------

\* Call c fails for good in this step.
FailsNow(c) ==
  /\ calls[c].outcome # "rejected"
  /\ calls'[c].outcome = "rejected"

\* C37: within one call the estimate is recorded once, however many attempts
\* follow: a call in its retry loop has one record, the reservation of its
\* estimate, and an attempt that fails records nothing.  The step in which the
\* call fails for good leaves the tracker as it is: no record is added, none
\* is taken away, and the call's records are still the one reservation.
C37_ReservedOnce ==
  /\ [](\A c \in DOMAIN calls :
          calls[c].pc \in {"inflight", "backoff"} =>
            /\ Len(RecordsOf(c)) = 1
            /\ RecordsOf(c)[1].kind = "reserve"
            /\ RecordsOf(c)[1].tokens = calls[c].tokens)
  /\ [][\A c \in DOMAIN calls :
          FailsNow(c) =>
            /\ recorded' = recorded
            /\ tokenUsageHistory' = tokenUsageHistory
            /\ currentTokens' = currentTokens
            /\ Len(RecordsOf(c)) = 1
            /\ RecordsOf(c)[1].kind = "reserve"]_vars

\* A call that was retried and then failed for good, its reservation still
\* in the history.
C37_Witness ==
  \E c \in DOMAIN calls :
    /\ calls[c].pc = "settled"
    /\ calls[c].outcome = "rejected"
    /\ calls[c].attempt >= 1
    /\ Len(RecordsOf(c)) = 1
    /\ ChargeOf(tokenUsageHistory, c) = calls[c].tokens
    /\ calls[c].tokens > 0

\* ---------------------------------------------------------------------------
\* claims on the queue under fair scheduling
\* ---------------------------------------------------------------------------

\* C36: every submitted call is eventually started and goes through to the
\* end of processRequest, whatever happens to the calls ahead of it; its
\* promise is settled once, the outcome never changing afterwards; a non-empty
\* queue means the scheduler is marked busy, and the flag is cleared only
\* with an empty queue.
C36_EveryCallServed ==
  /\ \A c \in 1..MaxLiveCalls : (calls[c].pc # "idle") ~> (calls[c].pc = "done")
  /\ \A c \in 1..MaxLiveCalls : (calls[c].pc = "queued") ~> InBody(c)
  /\ [](requestQueue # <<>> => isProcessingQueue)
  /\ [][\A c \in 1..MaxLiveCalls :
          /\ calls[c].outcome # "none" => calls'[c].outcome = calls[c].outcome
          /\ calls[c].pc = "done" => calls'[c].pc = "done"]_vars
  /\ [][isProcessingQueue /\ ~isProcessingQueue' =>
          requestQueue = <<>> /\ requestQueue' = <<>>]_vars

\* The last call to arrive was queued behind two others, one of which was
\* rejected, and has been served.
C36_Witness ==
  /\ \A c \in 1..MaxLiveCalls : calls[c].pc = "done"
  /\ \E c \in 1..MaxLiveCalls : calls[c].outcome = "rejected"
  /\ calls[MaxLiveCalls].outcome = "resolved"
  /\ ~isProcessingQueue

\* ---------------------------------------------------------------------------
\* claims on two runs in one process
\* ---------------------------------------------------------------------------

\* C38: every limiter message logged while the LLM call of run p is served
\* has reached the log stream of run p, and the stream of no other run has
\* received a message about p.
C38_LimiterLogsReachTheirRun ==
  \A p \in Peers :
    /\ peers[p].heard[p] = peers[p].said
    /\ \A q \in Peers \ {p} : peers[q].heard[p] = 0

\* Run q is waiting for the answer of a browser tool call it sent to a
\* connected client, and this step is taken by another run.
DispatchingAside(q) ==
  /\ peers[q].pc = "tool"
  /\ peers[q].on \in shared.connected
  /\ peers'[q] = peers[q]

\* C39: while a run waits for the answer of a tool call on the shared
\* connection, no step of another run (its cleanup sending browser_close, its
\* reconnect path calling cleanupMCPClient and initializeMCPClient) closes the
\* transport or the browser session of that connection, or replaces the client.
C39_OtherRunsLeaveTheSessionAlone ==
  [][\A q \in Peers :
       DispatchingAside(q) =>
         /\ peers[q].on \in shared'.connected
         /\ shared.browser = peers[q].on => shared'.browser = shared.browser
         /\ shared'.mcpClient = shared.mcpClient]_vars

\* Run p returns from initializeMCPClient in this step.
ReturnsFromInit(p) ==
  /\ peers[p].pc \in {"health", "initwait", "connecting"}
  /\ peers'[p].pc = "ready"

\* The health check of run p ends in cleanupMCPClient in this step.
HealthCheckTearsDown(p) ==
  /\ peers[p].pc = "health"
  /\ peers'[p].pc \notin {"health", "ready"}

\* No run is inside initializeMCPClient or cleanupMCPClient.
InitAtRest ==
  \A p \in Peers : peers[p].pc \in {"idle", "ready", "llm", "tool", "failed", "done"}

\* C40: however concurrent initializeMCPClient calls interleave, once they are
\* all over at most one transport is open, the one mcpTransport refers to; a
\* caller returns only when mcpClient is a connected client; and a health
\* check that fails closes no transport on which another caller's connect()
\* is pending.
C40_ConcurrentInitialization ==
  /\ [](InitAtRest =>
          /\ Cardinality(shared.open) <= 1
          /\ shared.open \subseteq {shared.mcpTransport})
  /\ [][\A p \in Peers :
          ReturnsFromInit(p) => shared'.mcpClient \in shared'.connected]_vars
  /\ [][\A p \in Peers :
          HealthCheckTearsDown(p) =>
            \A q \in Peers \ {p} :
              peers[q].pc = "connecting" /\ peers[q].mine \in shared.open
                => peers[q].mine \in shared'.open]_vars
====
